---------------------------- MODULE Spec2Model ----------------------------
(***************************************************************************)
(* PostGuard streaming mode: Sealer::seal, Unsealer::new, Unsealer::unseal *)
(* (pg-core/src/client/rust/stream.rs) over the Deck AEAD (reck/src/lib.rs)*)
(* under Spec; the policies and hints of irmaseal-core/src/identity.rs     *)
(* under PolicySpec; the Deck called on its own under DeckSpec.            *)
(*                                                                         *)
(* Bytes are symbolic terms whose first component is a tag:                *)
(*   <<"b", n>>            a concrete byte n in 0..255                     *)
(*   <<"xor", b, k>>       byte b xored with keystream byte k              *)
(*   <<"ks", x, i>>        i-th byte squeezed from deck history x          *)
(*   <<"tag", j, x>>       tag byte j squeezed from deck history x         *)
(*   <<"sig", j, id, t>>   byte j of an IBS signature by id over t         *)
(*   <<"pol", p, j>>       byte j of the serialization of policy p         *)
(*   <<"hdr", j>>          byte j of the serialized header                 *)
(*   <<"not", b>>          the complement of a symbolic byte               *)
(*   <<"sha3", j, x>>      byte j of the SHA3-512 digest of x              *)
(* The deck function, the IBS scheme and the KEM are ideal: their output   *)
(* is a term over their whole input. A multi-byte digest carries the term  *)
(* in its first byte; the other bytes carry their index.                   *)
(***************************************************************************)
EXTENDS Integers, Sequences, FiniteSets, TLC

(* ---------------------------- bounds ---------------------------------- *)
MaxPlain == 8
SegmentSize == 11
PolLen == 1
HeaderLen == 2
MaxTail == 2
SIG_BYTES == 3

(* ------------------------- program constants -------------------------- *)
TAG_LEN == 32
COUNTER_LEN == 4
COUNTER_TAG_LEN == TAG_LEN + COUNTER_LEN
TAG_SIZE == 32
POL_SIZE_SIZE == 4
SIG_SIZE_SIZE == 4
PREAMBLE_SIZE == 10

(* ------------------------------ bytes --------------------------------- *)
B(n) == <<"b", n>>

Zeros(n) == [i \in 1..n |-> B(0)]

Min(a, b) == IF a < b THEN a ELSE b

Slice(s, from, to) == SubSeq(s, from + 1, to)

\* A u32 is kept as its two 16-bit halves <<hi, lo>>, so that values up to
\* u32::MAX are exact.
U32(n) == << n \div 65536, n % 65536 >>

U32Zero == U32(0)

U32IsMax(c) == c[1] = 65535 /\ c[2] = 65535

\* wrapping increment
U32Inc(c) ==
    IF c[2] < 65535 THEN << c[1], c[2] + 1 >>
    ELSE IF c[1] < 65535 THEN << c[1] + 1, 0 >>
    ELSE << 0, 0 >>

\* u32::to_be_bytes
BeU32(c) ==
    << B(c[1] \div 256), B(c[1] % 256), B(c[2] \div 256), B(c[2] % 256) >>

IsConcrete(b) == b[1] = "b"

\* A length larger than any stream of the model.
Huge == 256 * 65536

\* u32::from_be_bytes. A value of 2^24 or more, and the value of four bytes
\* that are not concrete (pseudo-random output), is reported as Huge.
FromBeU32(s) ==
    IF \A i \in 1..4 : IsConcrete(s[i])
    THEN IF s[1][2] = 0
         THEN s[2][2] * 65536 + s[3][2] * 256 + s[4][2]
         ELSE Huge
    ELSE Huge

\* The bitwise complement `!b` of the tests.
Flip(b) ==
    CASE b[1] = "b" -> B(255 - b[2])
      [] b[1] = "not" -> b[2]
      [] OTHER -> <<"not", b>>

(* ---------------------------- Deck AEAD ------------------------------- *)
\* Deck::new: absorb the nonce, finalize(0,0,0), restart. The deck state is
\* the key and the history of finalized strings.
DeckNew(key, nonce) ==
    [xoofff |-> << key, <<nonce, "init">> >>, counter |-> U32Zero]

\* absorb + finalize with a one-bit domain separator: appended to the history.
AbsorbFinalize(x, msg, ds) == Append(x, <<msg, ds>>)

Squeeze(x, n) == [i \in 1..n |-> <<"ks", x, i>>]

SqueezeTag(x) ==
    [j \in 1..TAG_LEN |-> IF j = 1 THEN <<"tag", j, x>> ELSE <<"tag", j>>]

XorByte(b, k) ==
    IF b[1] = "xor" /\ b[3] = k THEN b[2] ELSE <<"xor", b, k>>

XorBuf(buf, ks) ==
    [i \in 1..Len(buf) |-> IF i <= Len(ks) THEN XorByte(buf[i], ks[i]) ELSE buf[i]]

\* Mutant of CheckedAdd: a wrapping increment, which never fails.
CheckedAdd_Wrapping(c) == "Ok"

\* u32::checked_add(1)
CheckedAdd(c) == IF U32IsMax(c) THEN "Overflow" ELSE "Ok"

\* Mutant of DeckWrap: the counter is incremented before it is used.
DeckWrap_IncrementFirst(deck, plain) ==
    LET c == BeU32(U32Inc(deck.counter))
        x0 == AbsorbFinalize(deck.xoofff, c, 0)
        ct == XorBuf(plain, Squeeze(x0, Len(plain)))
        tag == IF Len(plain) > 0
               THEN SqueezeTag(AbsorbFinalize(x0, ct, 1))
               ELSE SqueezeTag(AbsorbFinalize(deck.xoofff, c, 1))
        res == CheckedAdd(deck.counter)
    IN  [ buf |-> ct \o c \o tag,
          deck |-> IF res = "Ok" THEN [deck EXCEPT !.counter = U32Inc(@)] ELSE deck,
          res |-> res ]

\* Deck::_wrap
DeckWrap(deck, plain) ==
    LET c == BeU32(deck.counter)
        x0 == AbsorbFinalize(deck.xoofff, c, 0)
        ct == XorBuf(plain, Squeeze(x0, Len(plain)))
        tag == IF Len(plain) > 0
               THEN SqueezeTag(AbsorbFinalize(x0, ct, 1))
               ELSE SqueezeTag(AbsorbFinalize(deck.xoofff, c, 1))
        res == CheckedAdd(deck.counter)
    IN  [ buf |-> ct \o c \o tag,
          deck |-> IF res = "Ok" THEN [deck EXCEPT !.counter = U32Inc(@)] ELSE deck,
          res |-> res ]

\* Mutant of TagMatches: the tag is located but never compared.
TagMatches_Uncompared(deck, cipher) == Len(cipher) >= COUNTER_LEN

TagMatches(deck, cipher) ==
    LET n == Len(cipher)
    IN  IF n > COUNTER_TAG_LEN
        THEN LET ct == Slice(cipher, 0, n - COUNTER_TAG_LEN)
                 counter == Slice(cipher, n - COUNTER_TAG_LEN, n - TAG_LEN)
                 x0 == AbsorbFinalize(deck.xoofff, counter, 0)
             IN  Slice(cipher, n - TAG_LEN, n) = SqueezeTag(AbsorbFinalize(x0, ct, 1))
        ELSE /\ n >= COUNTER_LEN
             /\ Slice(cipher, COUNTER_LEN, n)
                  = SqueezeTag(AbsorbFinalize(deck.xoofff, Slice(cipher, 0, COUNTER_LEN), 1))

\* Mutant of DeckUnwrap: the keystream is squeezed for the counter of the
\* unwrapping Deck, not for the counter in the trailer.
DeckUnwrap_OwnCounter(deck, cipher) ==
    LET n == Len(cipher)
    IN  IF n < COUNTER_LEN
        THEN [buf |-> cipher, deck |-> deck, res |-> "panic"]
        ELSE IF ~TagMatches(deck, cipher)
        THEN [buf |-> cipher, deck |-> deck, res |-> "WrongTag"]
        ELSE IF n > COUNTER_TAG_LEN
        THEN LET x0 == AbsorbFinalize(deck.xoofff, BeU32(deck.counter), 0)
                 pt == XorBuf(cipher, Squeeze(x0, n - COUNTER_TAG_LEN))
             IN  [buf |-> Slice(pt, 0, n - COUNTER_TAG_LEN), deck |-> deck, res |-> "Ok"]
        ELSE [buf |-> <<>>, deck |-> deck, res |-> "Ok"]

\* Mutant of DeckUnwrap: the Deck counts the segments it has opened.
DeckUnwrap_Counting(deck, cipher) ==
    LET n == Len(cipher)
    IN  IF n < COUNTER_LEN
        THEN [buf |-> cipher, deck |-> deck, res |-> "panic"]
        ELSE IF ~TagMatches(deck, cipher)
        THEN [buf |-> cipher, deck |-> deck, res |-> "WrongTag"]
        ELSE IF n > COUNTER_TAG_LEN
        THEN LET counter == Slice(cipher, n - COUNTER_TAG_LEN, n - TAG_LEN)
                 x0 == AbsorbFinalize(deck.xoofff, counter, 0)
                 pt == XorBuf(cipher, Squeeze(x0, n - COUNTER_TAG_LEN))
             IN  [ buf |-> Slice(pt, 0, n - COUNTER_TAG_LEN),
                   deck |-> [deck EXCEPT !.counter = U32Inc(@)], res |-> "Ok" ]
        ELSE [buf |-> <<>>, deck |-> deck, res |-> "Ok"]

\* Deck::_unwrap. "panic" is the slice index out of range of cipher[COUNTER_LEN..]
\* on a buffer shorter than the counter. The call works on clones of xoofff
\* and assigns neither field of the Deck.
DeckUnwrap(deck, cipher) ==
    LET n == Len(cipher)
    IN  IF n < COUNTER_LEN
        THEN [buf |-> cipher, deck |-> deck, res |-> "panic"]
        ELSE IF ~TagMatches(deck, cipher)
        THEN [buf |-> cipher, deck |-> deck, res |-> "WrongTag"]
        ELSE IF n > COUNTER_TAG_LEN
        THEN LET counter == Slice(cipher, n - COUNTER_TAG_LEN, n - TAG_LEN)
                 x0 == AbsorbFinalize(deck.xoofff, counter, 0)
                 pt == XorBuf(cipher, Squeeze(x0, n - COUNTER_TAG_LEN))
             IN  [buf |-> Slice(pt, 0, n - COUNTER_TAG_LEN), deck |-> deck, res |-> "Ok"]
        ELSE [buf |-> <<>>, deck |-> deck, res |-> "Ok"]

\* Mutant of Deck_wrap: the counter of the Deck stays where it was.
Deck_wrap_NoIncrement(deck, plain) == [DeckWrap(deck, plain) EXCEPT !.deck = deck]

\* Deck::wrap(&mut self, ..)
Deck_wrap(deck, plain) == DeckWrap(deck, plain)

\* Mutant of Deck_wrap_last: the tag of a last buffer is squeezed under a
\* domain separator of its own.
Deck_wrap_last_OwnDomain(deck, plain) ==
    LET c == BeU32(deck.counter)
        x0 == AbsorbFinalize(deck.xoofff, c, 0)
        ct == XorBuf(plain, Squeeze(x0, Len(plain)))
        tag == IF Len(plain) > 0
               THEN SqueezeTag(AbsorbFinalize(x0, ct, 3))
               ELSE SqueezeTag(AbsorbFinalize(deck.xoofff, c, 3))
        res == CheckedAdd(deck.counter)
    IN  [ buf |-> ct \o c \o tag,
          deck |-> IF res = "Ok" THEN [deck EXCEPT !.counter = U32Inc(@)] ELSE deck,
          res |-> res ]

\* Deck::wrap_last(mut self, ..): the Deck returned here is dropped with the call.
Deck_wrap_last(deck, plain) == DeckWrap(deck, plain)

\* Deck::unwrap(&mut self, ..)
Deck_unwrap(deck, cipher) == DeckUnwrap(deck, cipher)

\* Deck::unwrap_last(&mut self, ..): the Deck is borrowed, as by unwrap.
Deck_unwrap_last(deck, cipher) == DeckUnwrap(deck, cipher)

(* ------------------- IBS, KEM and serialization ----------------------- *)
\* Signer::sign over the transcript chained so far, by the key of identity id.
Sign(id, transcript) ==
    [j \in 1..SIG_BYTES |->
        IF j = 1 THEN <<"sig", j, id, transcript>> ELSE <<"sig", j>>]

\* Mutant of Verify: every signature is accepted.
Verify_Accepting(sig, id, transcript) == TRUE

\* Verifier::verify
Verify(sig, id, transcript) == sig = Sign(id, transcript)

\* Policy::derive_ibs, taken as injective.
DeriveIbs(pol) == pol

PubPol == "signer.public"
PrivPol == "signer.private"

\* Two private policies around the bound of seal: one whose serialization
\* leaves no byte of segment 0 free, and one a byte longer.
FittingPol == "signer.fitting"
OversizePol == "signer.oversize"

SignerPolicies == {PubPol, PrivPol, FittingPol, OversizePol}

\* The length of bincode::serialize(&policy)
PolLenOf(pol) ==
    IF pol = FittingPol THEN SegmentSize - POL_SIZE_SIZE
    ELSE IF pol = OversizePol THEN SegmentSize - POL_SIZE_SIZE + 1
    ELSE PolLen

SerializePolicy(pol) == [j \in 1..PolLenOf(pol) |-> <<"pol", pol, j>>]

\* bincode::deserialize to a Policy: "err" when the bytes are no serialization.
DeserializePolicy(bytes) ==
    IF \E p \in SignerPolicies : bytes = SerializePolicy(p)
    THEN CHOOSE p \in SignerPolicies : bytes = SerializePolicy(p)
    ELSE "err"

Recipients == {"Bob", "Charlie"}
Usks == {"usk.Bob", "usk.Charlie"}
UskOf(r) == IF r = "Bob" THEN "usk.Bob" ELSE "usk.Charlie"

\* Header::new: one shared secret, encapsulated for every recipient.
TheHeader ==
    [ recipients |-> [r \in Recipients |-> <<"kem", r>>],
      iv |-> "iv",
      segment_size |-> SegmentSize ]

SharedSecret == <<"ss", "shared">>

\* RecipientInfo::decaps: the shared secret for the matching user secret key,
\* another secret otherwise.
Decaps(ct, usk) ==
    IF usk = UskOf(ct[2]) THEN SharedSecret ELSE <<"ss", usk>>

SerializeHeader == [j \in 1..HeaderLen |-> <<"hdr", j>>]

PRELUDE == << B(20), B(138), B(142), B(79) >>
VERSION_V3 == << B(0), B(2) >>


(* ------------------------- readers and inputs ------------------------- *)
\* A plaintext of n bytes, byte i holding i.
Plaintext(n) == [i \in 1..n |-> B(i % 256)]

\* A plaintext that fills segment 0 and goes on with bytes that read as
\* POL_LEN || policy, as the head of segment 0 does, and k more bytes.
PolicyLookalike(k) ==
    Plaintext(SegmentSize - POL_SIZE_SIZE - PolLen)
        \o BeU32(U32(PolLen)) \o [j \in 1..PolLen |-> <<"pol", "signer.public", j>>]
        \o Plaintext(k)

\* The plaintexts of the model.
Plaintexts ==
    { Plaintext(n) : n \in 0..MaxPlain }
        \cup (IF SegmentSize >= POL_SIZE_SIZE + PolLen
              THEN { PolicyLookalike(k) : k \in 0..MaxTail } ELSE {})

\* AsyncRead::read into a slice with room for `room` bytes when `avail` bytes
\* are left: 0 at end of input or for an empty slice, otherwise any positive
\* count; the model tries the longest read and the read one byte short of it.
ReadSizes(room, avail) ==
    LET m == Min(room, avail)
    IN  IF m = 0 THEN {0} ELSE IF m = 1 THEN {1} ELSE {m, m - 1}

\* buf[at..at+n] <- data
Overwrite(buf, at, data) ==
    [i \in 1..Len(buf) |->
        IF i > at /\ i <= at + Len(data) THEN data[i - at] ELSE buf[i]]

VARIABLES
    plain,      \* the plaintext behind the reader r of seal
    r_pos,      \* bytes of plain already read
    sealer,     \* Sealer and the locals of seal
    w,          \* bytes written to the sink of seal
    segs,       \* history: the segments seal wrote
    attack,     \* what happened to the sealed bytes on their way
    stream,     \* the bytes behind the reader of the Unsealer
    u_pos,      \* bytes of stream already read
    unsealer,   \* Unsealer and the locals of unseal
    sink,       \* bytes written to the sink of unseal
    checked,    \* history: the checks passed by the segment in unsealer.buf
    policy,     \* identity.rs: the Policy a method is called on
    other,      \* identity.rs: a second Policy, derived alongside
    id_call,    \* identity.rs: the last call and what it returned
    deck,       \* reck: the Deck that wraps
    cipher,     \* reck: the buffer handed to wrap and unwrap
    calls,      \* reck: history of the calls on the Deck and the buffer
    pkg,        \* pg-pkg: a request to the signing_key handler and its response
    web         \* irmaseal-core stream/web: a call of aead_nonce and its result

vars == << plain, r_pos, sealer, w, segs, attack, stream, u_pos, unsealer,
           sink, checked, policy, other, id_call, deck, cipher, calls, pkg, web >>

idVars == << policy, other, id_call >>
deckVars == << deck, cipher, calls >>
pkgVars == << pkg >>
webVars == << web >>

sealVars == << plain, r_pos, sealer, w, segs >>
unsealVars == << stream, u_pos, unsealer, sink, checked >>

\* No method of identity.rs is under way.
NoPolicyCall ==
    /\ policy = [timestamp |-> 0, con |-> <<>>]
    /\ other = [timestamp |-> 0, con |-> <<>>]
    /\ id_call = [op |-> "none"]

\* No Deck of its own is under test.
NoDeckCall ==
    /\ deck = [state |-> "none"]
    /\ cipher = <<>>
    /\ calls = <<>>

\* No request to the PKG is under test.
NoPkgCall == pkg = [pc |-> "off"]

\* No call of aead_nonce is under test.
NoWebCall == web = [pc |-> "off"]

NoUnsealer ==
    [ pc |-> "idle", res |-> "none", ident |-> "none", usk |-> "none",
      deck_res |-> "none", w_closed |-> FALSE ]

Init ==
    /\ plain \in Plaintexts
    /\ r_pos = 0
    /\ \E k \in {"None"} \cup SignerPolicies :
          sealer = [ pc |-> "start", res |-> "none", priv_sign_key |-> k ]
    /\ w = <<>>
    /\ segs = <<>>
    /\ attack = [kind |-> "pending"]
    /\ stream = <<>>
    /\ u_pos = 0
    /\ unsealer = NoUnsealer
    /\ sink = <<>>
    /\ checked = [tag |-> FALSE, sig |-> FALSE]
    /\ NoPolicyCall
    /\ NoDeckCall
    /\ NoPkgCall
    /\ NoWebCall

(* ------------------------------ Sealer -------------------------------- *)
\* SignatureExt { sig, pol } under bincode
SerializeSignatureExt(sig, pol) == sig \o SerializePolicy(pol)

\* Mutant of SealHeader: the header length is written behind the header.
SealHeader_LengthAfter ==
    /\ sealer.pc = "start"
    /\ LET header_vec == SerializeHeader
           signer == header_vec
           header_sig == Sign(DeriveIbs(PubPol), signer)
           header_sig_bytes == SerializeSignatureExt(header_sig, PubPol)
           enc == DeckNew(SharedSecret, TheHeader.iv)
           signing_key == IF sealer.priv_sign_key = "None"
                          THEN PubPol ELSE sealer.priv_sign_key
           pol_bytes == SerializePolicy(signing_key)
           pol_len == Len(pol_bytes)
           buf0 == Zeros(SegmentSize + TAG_SIZE)
           buf1 == Overwrite(buf0, 0, BeU32(U32(pol_len)))
           buf2 == Overwrite(buf1, POL_SIZE_SIZE, pol_bytes)
       IN  /\ w' = PRELUDE \o VERSION_V3 \o header_vec \o BeU32(U32(Len(header_vec)))
                     \o BeU32(U32(Len(header_sig_bytes))) \o header_sig_bytes
           /\ IF pol_len + POL_SIZE_SIZE > SegmentSize
              THEN sealer' = [sealer EXCEPT !.pc = "done", !.res = "ConstraintViolation"]
              ELSE sealer' = [ pc |-> "loop", res |-> "none",
                               priv_sign_key |-> sealer.priv_sign_key,
                               signing_key |-> signing_key,
                               signer |-> signer,
                               enc |-> enc,
                               buf |-> buf2,
                               buf_tail |-> POL_SIZE_SIZE + pol_len,
                               start |-> POL_SIZE_SIZE + pol_len,
                               counter |-> U32Zero ]
    /\ UNCHANGED << plain, r_pos, segs, attack >>
    /\ UNCHANGED unsealVars
    /\ UNCHANGED << idVars, deckVars, pkgVars, webVars >>

\* seal, lines 91-136: preamble, header, header signature, Deck, signer
\* policy and the segment buffer.
SealHeader ==
    /\ sealer.pc = "start"
    /\ LET header_vec == SerializeHeader
           signer == header_vec
           header_sig == Sign(DeriveIbs(PubPol), signer)
           header_sig_bytes == SerializeSignatureExt(header_sig, PubPol)
           enc == DeckNew(SharedSecret, TheHeader.iv)
           signing_key == IF sealer.priv_sign_key = "None"
                          THEN PubPol ELSE sealer.priv_sign_key
           pol_bytes == SerializePolicy(signing_key)
           pol_len == Len(pol_bytes)
           buf0 == Zeros(SegmentSize + TAG_SIZE)
           buf1 == Overwrite(buf0, 0, BeU32(U32(pol_len)))
           buf2 == Overwrite(buf1, POL_SIZE_SIZE, pol_bytes)
       IN  /\ w' = PRELUDE \o VERSION_V3 \o BeU32(U32(Len(header_vec))) \o header_vec
                     \o BeU32(U32(Len(header_sig_bytes))) \o header_sig_bytes
           /\ IF pol_len + POL_SIZE_SIZE > SegmentSize
              THEN sealer' = [sealer EXCEPT !.pc = "done", !.res = "ConstraintViolation"]
              ELSE sealer' = [ pc |-> "loop", res |-> "none",
                               priv_sign_key |-> sealer.priv_sign_key,
                               signing_key |-> signing_key,
                               signer |-> signer,
                               enc |-> enc,
                               buf |-> buf2,
                               buf_tail |-> POL_SIZE_SIZE + pol_len,
                               start |-> POL_SIZE_SIZE + pol_len,
                               counter |-> U32Zero ]
    /\ UNCHANGED << plain, r_pos, segs, attack >>
    /\ UNCHANGED unsealVars
    /\ UNCHANGED << idVars, deckVars, pkgVars, webVars >>

\* Mutant of SealFilled: every read is stored at the start of the buffer.
SealFilled_FromStart(n) ==
    Overwrite(sealer.buf, 0, Slice(plain, r_pos, r_pos + n))

\* The buffer of seal after reading n bytes at buf_tail.
SealFilled(n) ==
    Overwrite(sealer.buf, sealer.buf_tail, Slice(plain, r_pos, r_pos + n))

\* Mutant of SealSegmentBytes: every segment is signed with the domain byte 0x00.
SealSegmentBytes_NoFinalFlag(buf, flag) ==
    LET signer == sealer.signer \o Slice(buf, sealer.start, Len(buf))
        sig == Sign(DeriveIbs(sealer.signing_key),
                    signer \o BeU32(sealer.counter) \o << B(0) >>)
    IN  [ signer |-> signer,
          sig |-> sig,
          wrapped |-> IF flag = 1 THEN Deck_wrap_last(sealer.enc, buf \o sig)
                      ELSE Deck_wrap(sealer.enc, buf \o sig) ]

\* Mutant of SealSegmentBytes: the signature of a segment covers the header
\* and that segment only, not the segments before it.
SealSegmentBytes_PerSegment(buf, flag) ==
    LET signer == SerializeHeader \o Slice(buf, sealer.start, Len(buf))
        sig == Sign(DeriveIbs(sealer.signing_key),
                    signer \o BeU32(sealer.counter) \o << B(flag) >>)
    IN  [ signer |-> signer,
          sig |-> sig,
          wrapped |-> IF flag = 1 THEN Deck_wrap_last(sealer.enc, buf \o sig)
                      ELSE Deck_wrap(sealer.enc, buf \o sig) ]

\* Mutant of SealSegmentBytes: the signer is updated with the whole buffer,
\* the policy at the head of segment 0 included.
SealSegmentBytes_WholeBuffer(buf, flag) ==
    LET signer == sealer.signer \o buf
        sig == Sign(DeriveIbs(sealer.signing_key),
                    signer \o BeU32(sealer.counter) \o << B(flag) >>)
    IN  [ signer |-> signer,
          sig |-> sig,
          wrapped |-> IF flag = 1 THEN Deck_wrap_last(sealer.enc, buf \o sig)
                      ELSE Deck_wrap(sealer.enc, buf \o sig) ]

\* One segment of seal: update the signer, sign with the domain byte, append
\* the signature, wrap (the final segment: wrap_last).
SealSegmentBytes(buf, flag) ==
    LET signer == sealer.signer \o Slice(buf, sealer.start, Len(buf))
        sig == Sign(DeriveIbs(sealer.signing_key),
                    signer \o BeU32(sealer.counter) \o << B(flag) >>)
    IN  [ signer |-> signer,
          sig |-> sig,
          wrapped |-> IF flag = 1 THEN Deck_wrap_last(sealer.enc, buf \o sig)
                      ELSE Deck_wrap(sealer.enc, buf \o sig) ]

\* seal, lines 139-141 with neither branch of the loop taken: a short read.
SealPartial ==
    /\ sealer.pc = "loop"
    /\ \E n \in ReadSizes(SegmentSize - sealer.buf_tail, Len(plain) - r_pos) :
          /\ sealer.buf_tail + n # SegmentSize
          /\ n # 0
          /\ sealer' = [sealer EXCEPT !.buf = SealFilled(n), !.buf_tail = @ + n]
          /\ r_pos' = r_pos + n
    /\ UNCHANGED << plain, w, segs, attack >>
    /\ UNCHANGED unsealVars
    /\ UNCHANGED << idVars, deckVars, pkgVars, webVars >>

\* seal, lines 139-163: the read fills the segment.
SealFull ==
    /\ sealer.pc = "loop"
    /\ \E n \in ReadSizes(SegmentSize - sealer.buf_tail, Len(plain) - r_pos) :
          /\ sealer.buf_tail + n = SegmentSize
          /\ LET buf == Slice(SealFilled(n), 0, sealer.buf_tail + n)
                 seg == SealSegmentBytes(buf, 0)
             IN  /\ r_pos' = r_pos + n
                 /\ IF seg.wrapped.res # "Ok" \/ CheckedAdd(sealer.counter) # "Ok"
                    THEN /\ sealer' = [sealer EXCEPT !.pc = "done", !.res = "panic",
                                                     !.buf = seg.wrapped.buf]
                         /\ UNCHANGED << w, segs >>
                    ELSE /\ sealer' = [sealer EXCEPT !.signer = seg.signer,
                                                     !.enc = seg.wrapped.deck,
                                                     !.buf = seg.wrapped.buf,
                                                     !.buf_tail = 0,
                                                     !.start = 0,
                                                     !.counter = U32Inc(@)]
                         /\ w' = w \o seg.wrapped.buf
                         /\ segs' = Append(segs,
                               [ at |-> Len(w), len |-> Len(seg.wrapped.buf),
                                 last |-> FALSE, op |-> "wrap",
                                 payload |-> Slice(buf, sealer.start, Len(buf)) ])
    /\ UNCHANGED << plain, attack >>
    /\ UNCHANGED unsealVars
    /\ UNCHANGED << idVars, deckVars, pkgVars, webVars >>

\* seal, lines 139-141 and 164-177: end of input, the final segment.
SealLast ==
    /\ sealer.pc = "loop"
    /\ \E n \in ReadSizes(SegmentSize - sealer.buf_tail, Len(plain) - r_pos) :
          /\ sealer.buf_tail + n # SegmentSize
          /\ n = 0
          /\ LET buf == Slice(sealer.buf, 0, sealer.buf_tail)
                 seg == SealSegmentBytes(buf, 1)
             IN  IF seg.wrapped.res # "Ok"
                 THEN /\ sealer' = [sealer EXCEPT !.pc = "done", !.res = "panic",
                                                  !.buf = seg.wrapped.buf]
                      /\ UNCHANGED << w, segs >>
                 ELSE /\ sealer' = [sealer EXCEPT !.pc = "flush",
                                                  !.signer = seg.signer,
                                                  !.enc = seg.wrapped.deck,
                                                  !.buf = seg.wrapped.buf]
                      /\ w' = w \o seg.wrapped.buf
                      /\ segs' = Append(segs,
                            [ at |-> Len(w), len |-> Len(seg.wrapped.buf),
                              last |-> TRUE, op |-> "wrap_last",
                              payload |-> Slice(buf, sealer.start, Len(buf)) ])
    /\ UNCHANGED << plain, r_pos, attack >>
    /\ UNCHANGED unsealVars
    /\ UNCHANGED << idVars, deckVars, pkgVars, webVars >>

\* seal, lines 181-184: flush, close, Ok.
SealFinish ==
    /\ sealer.pc = "flush"
    /\ sealer' = [sealer EXCEPT !.pc = "done", !.res = "Ok"]
    /\ UNCHANGED << plain, r_pos, w, segs, attack >>
    /\ UNCHANGED unsealVars
    /\ UNCHANGED << idVars, deckVars, pkgVars, webVars >>

(* ------------------------ the bytes in transit ------------------------ *)
SegBytes(k) == Slice(w, segs[k].at, segs[k].at + segs[k].len)

PayloadStart == IF Len(segs) = 0 THEN Len(w) ELSE segs[1].at

Concat3(a, b, c) == a \o b \o c

\* The sealed bytes reach the Unsealer unchanged.
Deliver ==
    /\ sealer.pc = "done" /\ sealer.res = "Ok"
    /\ attack.kind = "pending"
    /\ attack' = [kind |-> "none"]
    /\ stream' = w
    /\ UNCHANGED sealVars
    /\ UNCHANGED << idVars, deckVars, pkgVars, webVars >>
    /\ UNCHANGED << u_pos, unsealer, sink, checked >>

\* One byte is complemented (ct[i] = !ct[i]).
FlipByte ==
    /\ sealer.pc = "done" /\ sealer.res = "Ok"
    /\ attack.kind = "pending"
    /\ \E i \in 1..Len(w) :
          /\ attack' = [kind |-> "flip", pos |-> i - 1]
          /\ stream' = [w EXCEPT ![i] = Flip(@)]
    /\ UNCHANGED sealVars
    /\ UNCHANGED << idVars, deckVars, pkgVars, webVars >>
    /\ UNCHANGED << u_pos, unsealer, sink, checked >>

\* A suffix is removed.
Truncate ==
    /\ sealer.pc = "done" /\ sealer.res = "Ok"
    /\ attack.kind = "pending"
    /\ \E n \in 0..(Len(w) - 1) :
          /\ attack' = [kind |-> "truncate", len |-> n]
          /\ stream' = Slice(w, 0, n)
    /\ UNCHANGED sealVars
    /\ UNCHANGED << idVars, deckVars, pkgVars, webVars >>
    /\ UNCHANGED << u_pos, unsealer, sink, checked >>

\* Whole segments are exchanged, repeated or left out.
Reorder ==
    /\ sealer.pc = "done" /\ sealer.res = "Ok"
    /\ attack.kind = "pending"
    /\ LET pre == Slice(w, 0, PayloadStart)
           n == Len(segs)
           Cat[k \in 0..n, f \in [1..n -> 1..n]] ==
               IF k = 0 THEN <<>> ELSE Cat[k - 1, f] \o SegBytes(f[k])
       IN  \/ \E i \in 1..n, j \in 1..n :
                /\ i < j
                /\ attack' = [kind |-> "swap", i |-> i - 1, j |-> j - 1]
                /\ stream' = pre \o Cat[n, [k \in 1..n |->
                                 IF k = i THEN j ELSE IF k = j THEN i ELSE k]]
           \/ \E i \in 1..n :
                /\ attack' = [kind |-> "dup", i |-> i - 1]
                /\ stream' = Concat3(Slice(w, 0, segs[i].at + segs[i].len),
                                     SegBytes(i),
                                     Slice(w, segs[i].at + segs[i].len, Len(w)))
           \/ \E i \in 1..n :
                /\ n > 1
                /\ attack' = [kind |-> "drop", i |-> i - 1]
                /\ stream' = Slice(w, 0, segs[i].at)
                               \o Slice(w, segs[i].at + segs[i].len, Len(w))
    /\ UNCHANGED sealVars
    /\ UNCHANGED << idVars, deckVars, pkgVars, webVars >>
    /\ UNCHANGED << u_pos, unsealer, sink, checked >>

(* ---------------------------- Unsealer::new --------------------------- *)
\* preamble_checked: the magic, the version and the header length.
PreambleChecked(preamble) ==
    IF Slice(preamble, 0, 4) # PRELUDE THEN [res |-> "NotPostGuard"]
    ELSE IF Slice(preamble, 4, 6) # VERSION_V3 THEN [res |-> "IncorrectVersion"]
    ELSE [res |-> "Ok", header_len |-> FromBeU32(Slice(preamble, 6, PREAMBLE_SIZE))]

\* bincode::deserialize to a SignatureExt; bytes after the value are ignored.
DeserializeSignatureExt(bytes) ==
    IF Len(bytes) < SIG_BYTES + PolLen THEN [res |-> "err"]
    ELSE LET pol == DeserializePolicy(Slice(bytes, SIG_BYTES, SIG_BYTES + PolLen))
         IN  IF pol = "err" THEN [res |-> "err"]
             ELSE [res |-> "Ok", sig |-> Slice(bytes, 0, SIG_BYTES), pol |-> pol]

\* bincode::deserialize to a Header
DeserializeHeader(bytes) ==
    IF Len(bytes) >= HeaderLen /\ Slice(bytes, 0, HeaderLen) = SerializeHeader
    THEN [res |-> "Ok", header |-> TheHeader]
    ELSE [res |-> "err"]

\* Mutant of UnsealerNewOf: the header is deserialized before its signature
\* is verified.
UnsealerNewOf_ParseFirst(s) ==
    IF Len(s) < PREAMBLE_SIZE THEN [res |-> "NotPostGuard"]
    ELSE
    LET pre == PreambleChecked(Slice(s, 0, PREAMBLE_SIZE))
    IN  IF pre.res # "Ok" THEN [res |-> pre.res]
    ELSE
    LET h_end == Min(PREAMBLE_SIZE + pre.header_len, Len(s))
        header_raw == Slice(s, PREAMBLE_SIZE, h_end)
        hd == DeserializeHeader(header_raw)
    IN  IF hd.res # "Ok" THEN [res |-> "FormatViolation"]
    ELSE IF Len(s) - h_end < SIG_SIZE_SIZE THEN [res |-> "FormatViolation"]
    ELSE
    LET header_sig_len == FromBeU32(Slice(s, h_end, h_end + SIG_SIZE_SIZE))
        s_end == Min(h_end + SIG_SIZE_SIZE + header_sig_len, Len(s))
        h_sig_ext == DeserializeSignatureExt(Slice(s, h_end + SIG_SIZE_SIZE, s_end))
    IN  IF h_sig_ext.res # "Ok" THEN [res |-> "FormatViolation"]
    ELSE IF ~Verify(h_sig_ext.sig, DeriveIbs(h_sig_ext.pol), header_raw)
    THEN [res |-> "IncorrectSignature"]
    ELSE [ res |-> "Ok", header |-> hd.header, pub_id |-> h_sig_ext.pol,
           segment_size |-> hd.header.segment_size, verifier |-> header_raw,
           pos |-> s_end ]

\* Unsealer::new on the bytes s: the error, or the Unsealer and the reader
\* position it leaves.
UnsealerNewOf(s) ==
    IF Len(s) < PREAMBLE_SIZE THEN [res |-> "NotPostGuard"]
    ELSE
    LET pre == PreambleChecked(Slice(s, 0, PREAMBLE_SIZE))
    IN  IF pre.res # "Ok" THEN [res |-> pre.res]
    ELSE
    LET h_end == Min(PREAMBLE_SIZE + pre.header_len, Len(s))
        header_raw == Slice(s, PREAMBLE_SIZE, h_end)
    IN  IF Len(s) - h_end < SIG_SIZE_SIZE THEN [res |-> "FormatViolation"]
    ELSE
    LET header_sig_len == FromBeU32(Slice(s, h_end, h_end + SIG_SIZE_SIZE))
        s_end == Min(h_end + SIG_SIZE_SIZE + header_sig_len, Len(s))
        h_sig_ext == DeserializeSignatureExt(Slice(s, h_end + SIG_SIZE_SIZE, s_end))
    IN  IF h_sig_ext.res # "Ok" THEN [res |-> "FormatViolation"]
    ELSE
    LET verifier == header_raw
        pub_id == DeriveIbs(h_sig_ext.pol)
    IN  IF ~Verify(h_sig_ext.sig, pub_id, verifier) THEN [res |-> "IncorrectSignature"]
    ELSE
    LET hd == DeserializeHeader(header_raw)
    IN  IF hd.res # "Ok" THEN [res |-> "FormatViolation"]
        ELSE [ res |-> "Ok", header |-> hd.header, pub_id |-> h_sig_ext.pol,
               segment_size |-> hd.header.segment_size, verifier |-> verifier,
               pos |-> s_end ]

UnsealerNew ==
    /\ attack.kind # "pending"
    /\ unsealer.pc = "idle"
    /\ LET u == UnsealerNewOf(stream)
       IN  IF u.res # "Ok"
           THEN /\ unsealer' = [unsealer EXCEPT !.pc = "done", !.res = u.res]
                /\ UNCHANGED u_pos
           ELSE /\ unsealer' = [ pc |-> "created", res |-> "none",
                                 ident |-> "none", usk |-> "none",
                                 deck_res |-> "none", w_closed |-> FALSE,
                                 header |-> u.header, pub_id |-> u.pub_id,
                                 segment_size |-> u.segment_size,
                                 verifier |-> u.verifier ]
                /\ u_pos' = u.pos
    /\ UNCHANGED sealVars
    /\ UNCHANGED << idVars, deckVars, pkgVars, webVars >>
    /\ UNCHANGED << attack, stream, sink, checked >>

(* -------------------------- Unsealer::unseal -------------------------- *)
Idents == Recipients \cup {"Eve"}

\* Mutant of RecipientInfoOf: an unknown identifier falls back to a listed one.
RecipientInfoOf_Fallback(header, ident) ==
    IF ident \in DOMAIN header.recipients
    THEN [res |-> "Ok", rec_info |-> header.recipients[ident]]
    ELSE [res |-> "Ok", rec_info |-> header.recipients["Bob"]]

\* self.header.recipients.get(ident).ok_or_else(UnknownIdentifier)
RecipientInfoOf(header, ident) ==
    IF ident \in DOMAIN header.recipients
    THEN [res |-> "Ok", rec_info |-> header.recipients[ident]]
    ELSE [res |-> "UnknownIdentifier"]

\* unseal, lines 254-273: the recipient lookup, the Deck and the buffer.
UnsealStart ==
    /\ unsealer.pc = "created"
    /\ \E ident \in Idents, usk \in Usks :
          LET rec == RecipientInfoOf(unsealer.header, ident)
          IN
          IF rec.res # "Ok"
          THEN unsealer' = [ pc |-> "done", res |-> rec.res,
                             ident |-> ident, usk |-> usk,
                             deck_res |-> "none", w_closed |-> FALSE ]
          ELSE LET ss == Decaps(rec.rec_info, usk)
                   bufsize == unsealer.segment_size + SIG_BYTES + TAG_SIZE
               IN  unsealer' =
                     [ pc |-> "loop", res |-> "none", ident |-> ident,
                       usk |-> usk, deck_res |-> "none",
                       pub_id |-> unsealer.pub_id,
                       verifier |-> unsealer.verifier,
                       dec |-> DeckNew(ss, unsealer.header.iv),
                       bufsize |-> bufsize,
                       buf |-> Zeros(bufsize),
                       buf_tail |-> 0,
                       counter |-> U32Zero,
                       pol_id |-> "None",
                       build |-> "any",
                       w_closed |-> FALSE ]
    /\ UNCHANGED sealVars
    /\ UNCHANGED << idVars, deckVars, pkgVars, webVars >>
    /\ UNCHANGED << attack, stream, u_pos, sink, checked >>

\* extract_policy: the policy at the head of segment 0 and the rest of the
\* buffer. "panic" is a slice index out of range.
ExtractPolicy(buf) ==
    IF Len(buf) < POL_SIZE_SIZE THEN [res |-> "panic"]
    ELSE LET pol_len == FromBeU32(Slice(buf, 0, POL_SIZE_SIZE))
         IN  IF POL_SIZE_SIZE + pol_len > Len(buf) THEN [res |-> "panic"]
             ELSE LET pol == DeserializePolicy(
                                 Slice(buf, POL_SIZE_SIZE, POL_SIZE_SIZE + pol_len))
                  IN  IF pol = "err" THEN [res |-> "FormatViolation"]
                      ELSE [ res |-> "Ok", pol |-> pol,
                             buf |-> Slice(buf, POL_SIZE_SIZE + pol_len, Len(buf)) ]

\* The transcript verify_segment checks the signature of a segment against.
SegmentTranscript(verifier, m, counter, is_last) ==
    verifier \o m \o BeU32(counter) \o << B(IF is_last THEN 1 ELSE 0) >>

\* Mutant of VerifySegment: the result of verify is not looked at.
VerifySegment_Unchecked(seg, verifier, id, counter, is_last, build) ==
    IF Len(seg) < SIG_BYTES THEN [res |-> "panic"]
    ELSE IF Len(seg) = SIG_BYTES /\ build = "debug" THEN [res |-> "panic"]
    ELSE LET m == Slice(seg, 0, Len(seg) - SIG_BYTES)
         IN  [res |-> "Ok", m |-> m, verifier |-> verifier \o m]

\* verify_segment. debug_assert!(seg.len() > SIG_BYTES) panics in a build with
\* debug assertions; `build` is "debug", "release" or "any" (not yet decided).
\* A segment shorter than a signature panics in either build (the subtraction
\* in debug, split_at in release).
VerifySegment(seg, verifier, id, counter, is_last, build) ==
    IF Len(seg) < SIG_BYTES THEN [res |-> "panic"]
    ELSE IF Len(seg) = SIG_BYTES /\ build = "debug" THEN [res |-> "panic"]
    ELSE LET m == Slice(seg, 0, Len(seg) - SIG_BYTES)
             sig == Slice(seg, Len(seg) - SIG_BYTES, Len(seg))
         IN  IF ~Verify(sig, id, SegmentTranscript(verifier, m, counter, is_last))
             THEN [res |-> "IncorrectSignature", verifier |-> verifier \o m]
             ELSE [res |-> "Ok", m |-> m, verifier |-> verifier \o m]

\* What Result::unwrap makes of the result of Deck::unwrap.
UnwrapResult(res) == IF res = "Ok" THEN "Ok" ELSE "panic"

\* Mutant of ProcessSegment: verify_segment is left out.
ProcessSegment_NoVerify(u, buf, is_last, build) ==
    LET d == DeckUnwrap(u.dec, buf)
    IN  IF UnwrapResult(d.res) # "Ok"
        THEN [res |-> UnwrapResult(d.res), deck_res |-> d.res]
    ELSE
    LET e == IF u.counter = U32Zero
             THEN ExtractPolicy(d.buf)
             ELSE [res |-> "Ok", pol |-> u.pol_id, buf |-> d.buf]
    IN  IF e.res # "Ok" THEN [res |-> e.res, deck_res |-> d.res]
    ELSE IF Len(e.buf) < SIG_BYTES THEN [res |-> "panic", deck_res |-> d.res]
    ELSE [ res |-> "Ok", deck_res |-> d.res, pol_id |-> e.pol, buf |-> e.buf,
           m |-> Slice(e.buf, 0, Len(e.buf) - SIG_BYTES),
           verifier |-> u.verifier \o Slice(e.buf, 0, Len(e.buf) - SIG_BYTES) ]

\* One segment of unseal up to its `?`: dec.unwrap(..).unwrap(), extract_policy
\* for segment 0, verify_segment.
ProcessSegment(u, buf, is_last, build) ==
    LET d == DeckUnwrap(u.dec, buf)
    IN  IF UnwrapResult(d.res) # "Ok"
        THEN [res |-> UnwrapResult(d.res), deck_res |-> d.res]
    ELSE
    LET e == IF u.counter = U32Zero
             THEN ExtractPolicy(d.buf)
             ELSE [res |-> "Ok", pol |-> u.pol_id, buf |-> d.buf]
    IN  IF e.res # "Ok" THEN [res |-> e.res, deck_res |-> d.res]
    ELSE
    LET v == VerifySegment(e.buf, u.verifier, DeriveIbs(e.pol), u.counter,
                           is_last, build)
    IN  IF v.res # "Ok" THEN [res |-> v.res, deck_res |-> d.res]
        ELSE [ res |-> "Ok", deck_res |-> d.res, pol_id |-> e.pol,
               buf |-> e.buf, m |-> v.m, verifier |-> v.verifier ]

\* History: whether the segment in buf carries the tag of the Deck and the
\* signature of the signer over the transcript at this counter and flag.
ChecksOf(u, buf, is_last) ==
    LET tagOk == TagMatches(u.dec, buf)
        d == DeckUnwrap(u.dec, buf)
        e == IF d.res # "Ok" THEN [res |-> "no"]
             ELSE IF u.counter = U32Zero THEN ExtractPolicy(d.buf)
             ELSE [res |-> "Ok", pol |-> u.pol_id, buf |-> d.buf]
    IN  [ tag |-> tagOk,
          sig |-> /\ e.res = "Ok"
                  /\ Len(e.buf) >= SIG_BYTES
                  /\ Verify(Slice(e.buf, Len(e.buf) - SIG_BYTES, Len(e.buf)),
                            DeriveIbs(e.pol),
                            SegmentTranscript(u.verifier,
                                Slice(e.buf, 0, Len(e.buf) - SIG_BYTES),
                                u.counter, is_last)) ]

\* Whether the debug assertion of verify_segment is evaluated false on the
\* segment: the only place where the build decides the outcome.
AssertionDecides(u, buf) ==
    LET d == DeckUnwrap(u.dec, buf)
        e == IF d.res # "Ok" THEN [res |-> "no"]
             ELSE IF u.counter = U32Zero THEN ExtractPolicy(d.buf)
             ELSE [res |-> "Ok", buf |-> d.buf]
    IN  e.res = "Ok" /\ Len(e.buf) = SIG_BYTES

\* The builds a run can be in at this segment: the one already decided, both
\* when the assertion decides now, and still undecided otherwise.
Builds(u, buf) ==
    IF u.build # "any" THEN {u.build}
    ELSE IF AssertionDecides(u, buf) THEN {"debug", "release"}
    ELSE {"any"}

\* Mutant of UnsealFilled: every read is stored at the start of the buffer.
UnsealFilled_FromStart(n) ==
    Overwrite(unsealer.buf, 0, Slice(stream, u_pos, u_pos + n))

\* The buffer of unseal after reading n bytes at buf_tail.
UnsealFilled(n) ==
    Overwrite(unsealer.buf, unsealer.buf_tail, Slice(stream, u_pos, u_pos + n))

\* unseal, line 313-314 with neither branch of the loop taken: a short read.
UnsealPartial ==
    /\ unsealer.pc = "loop"
    /\ \E n \in ReadSizes(unsealer.bufsize - unsealer.buf_tail, Len(stream) - u_pos) :
          /\ unsealer.buf_tail + n # unsealer.bufsize
          /\ n # 0
          /\ unsealer' = [unsealer EXCEPT !.buf = UnsealFilled(n), !.buf_tail = @ + n]
          /\ u_pos' = u_pos + n
    /\ UNCHANGED sealVars
    /\ UNCHANGED << idVars, deckVars, pkgVars, webVars >>
    /\ UNCHANGED << attack, stream, sink, checked >>

\* The segment in buf is unwrapped and verified; on success the verified
\* message waits to be written.
UnsealSegment(buf, is_last) ==
    \E build \in Builds(unsealer, buf) :
       /\ LET p == ProcessSegment(unsealer, buf, is_last, build)
          IN  IF p.res # "Ok"
              THEN /\ unsealer' = [is_last |-> is_last]
                                   @@ [unsealer EXCEPT !.pc = "done", !.res = p.res,
                                                       !.deck_res = p.deck_res,
                                                       !.build = build]
                   /\ checked' = [tag |-> FALSE, sig |-> FALSE]
              ELSE /\ unsealer' = [m |-> p.m, is_last |-> is_last]
                                   @@ [unsealer EXCEPT !.pc = "write",
                                          !.deck_res = p.deck_res,
                                          !.pol_id = p.pol_id, !.buf = p.buf,
                                          !.verifier = p.verifier, !.build = build]
                   /\ checked' = ChecksOf(unsealer, buf, is_last)

\* unseal, lines 313-330: the read fills the buffer.
UnsealFull ==
    /\ unsealer.pc = "loop"
    /\ \E n \in ReadSizes(unsealer.bufsize - unsealer.buf_tail, Len(stream) - u_pos) :
          /\ unsealer.buf_tail + n = unsealer.bufsize
          /\ u_pos' = u_pos + n
          /\ UnsealSegment(UnsealFilled(n), FALSE)
    /\ UNCHANGED sealVars
    /\ UNCHANGED << idVars, deckVars, pkgVars, webVars >>
    /\ UNCHANGED << attack, stream, sink >>

\* unseal, lines 313-314 and 337-352: end of input.
UnsealLast ==
    /\ unsealer.pc = "loop"
    /\ \E n \in ReadSizes(unsealer.bufsize - unsealer.buf_tail, Len(stream) - u_pos) :
          /\ unsealer.buf_tail + n # unsealer.bufsize
          /\ n = 0
          /\ UnsealSegment(Slice(unsealer.buf, 0, unsealer.buf_tail), TRUE)
    /\ UNCHANGED sealVars
    /\ UNCHANGED << idVars, deckVars, pkgVars, webVars >>
    /\ UNCHANGED << attack, stream, u_pos, sink >>

\* unseal, lines 332-336 and 354-356: w.write_all(m), then the next segment
\* or the end of the loop.
UnsealWrite ==
    /\ unsealer.pc = "write"
    /\ sink' = sink \o unsealer.m
    /\ IF unsealer.is_last
       THEN unsealer' = [unsealer EXCEPT !.pc = "close"]
       ELSE unsealer' = [unsealer EXCEPT !.pc = "loop", !.buf_tail = 0,
                            !.buf = [i \in 1..unsealer.bufsize |->
                                        IF i <= Len(unsealer.buf)
                                        THEN unsealer.buf[i] ELSE B(0)],
                            !.counter = U32Inc(@)]
    /\ checked' = [tag |-> FALSE, sig |-> FALSE]
    /\ UNCHANGED sealVars
    /\ UNCHANGED << idVars, deckVars, pkgVars, webVars >>
    /\ UNCHANGED << attack, stream, u_pos >>

\* Mutant of VerificationResult: the segment policy is always reported.
VerificationResult_AlwaysPrivate(pub_id, private_id) ==
    [ public |-> pub_id, private |-> private_id ]

\* unseal, lines 362-372: the VerificationResult.
VerificationResult(pub_id, private_id) ==
    [ public |-> pub_id,
      private |-> IF pub_id = private_id THEN "None" ELSE private_id ]

\* unseal, lines 360-372: close the sink and return the VerificationResult.
UnsealClose ==
    /\ unsealer.pc = "close"
    /\ unsealer' = [unsealer EXCEPT !.pc = "done", !.res = "Ok", !.w_closed = TRUE]
                   @@ [vr |-> VerificationResult(unsealer.pub_id, unsealer.pol_id)]
    /\ UNCHANGED sealVars
    /\ UNCHANGED << idVars, deckVars, pkgVars, webVars >>
    /\ UNCHANGED << attack, stream, u_pos, sink, checked >>

Next ==
    \/ SealHeader
    \/ SealPartial
    \/ SealFull
    \/ SealLast
    \/ SealFinish
    \/ Deliver
    \/ FlipByte
    \/ Truncate
    \/ Reorder
    \/ UnsealerNew
    \/ UnsealStart
    \/ UnsealPartial
    \/ UnsealFull
    \/ UnsealLast
    \/ UnsealWrite
    \/ UnsealClose

Spec == Init /\ [][Next]_vars

\* One turn of the loop of seal, and one of unseal.
SealLoop == SealPartial \/ SealFull \/ SealLast \/ SealFinish

UnsealLoop == UnsealPartial \/ UnsealFull \/ UnsealLast \/ UnsealWrite \/ UnsealClose

\* seal and unseal are futures the caller awaits: the executor polls them until
\* they are ready, and a reader of finitely many bytes answers every read. A
\* turn of a loop that can be taken is therefore taken.
LiveSpec == Init /\ [][Next]_vars /\ WF_vars(SealLoop) /\ WF_vars(UnsealLoop)


(* ------------------- identity.rs: policies and hints ------------------ *)
\* A String is the sequence of its UTF-8 bytes; an Option is the empty
\* sequence (None) or a sequence of one element (Some).
MaxCon == 2
MaxTimestamp == 1
MaxValueLen == 9

AMOUNT_CHARS_TO_HIDE == 4

\* A u64 (and a usize of a 64-bit target) as four 16-bit limbs, the most
\* significant first; U64(n) is exact for the n of the model.
U64(n) == << 0, 0, n \div 65536, n % 65536 >>

IDENTITY_UNSET == << 65535, 65535, 65535, 65535 >>

\* wrapping decrement
U64Dec(a) ==
    IF a[4] > 0 THEN << a[1], a[2], a[3], a[4] - 1 >>
    ELSE IF a[3] > 0 THEN << a[1], a[2], a[3] - 1, 65535 >>
    ELSE IF a[2] > 0 THEN << a[1], a[2] - 1, 65535, 65535 >>
    ELSE IF a[1] > 0 THEN << a[1] - 1, 65535, 65535, 65535 >>
    ELSE << 65535, 65535, 65535, 65535 >>

\* a - k on usize: "overflow" where the subtraction goes below zero, which a
\* build with overflow checks turns into a panic and another build wraps.
RECURSIVE U64Sub(_, _)
U64Sub(a, k) == IF k = 0 THEN a ELSE U64Sub(U64Dec(a), k - 1)

U64Shr1(a) ==
    << a[1] \div 2,
       (a[2] \div 2) + (a[1] % 2) * 32768,
       (a[3] \div 2) + (a[2] % 2) * 32768,
       (a[4] \div 2) + (a[3] % 2) * 32768 >>

U64Gt(a, b) ==
    \E i \in 1..4 : a[i] > b[i] /\ \A j \in 1..(i - 1) : a[j] = b[j]

MAX_CON == U64Shr1(U64Dec(IDENTITY_UNSET))

\* u64::to_be_bytes
U64Be(a) ==
    << B(a[1] \div 256), B(a[1] % 256), B(a[2] \div 256), B(a[2] % 256),
       B(a[3] \div 256), B(a[3] % 256), B(a[4] \div 256), B(a[4] % 256) >>

\* str::as_bytes
AsBytes(s) == [k \in 1..Len(s) |-> B(s[k])]

\* Ord of String: bytewise lexicographic
RECURSIVE StrLess(_, _)
StrLess(a, b) ==
    IF b = <<>> THEN FALSE
    ELSE IF a = <<>> THEN TRUE
    ELSE IF Head(a) # Head(b) THEN Head(a) < Head(b)
    ELSE StrLess(Tail(a), Tail(b))

\* Ord of Option<String>: None before Some
OptLess(x, y) ==
    IF x = <<>> THEN y # <<>>
    ELSE y # <<>> /\ StrLess(x[1], y[1])

\* #[derive(Ord)] of Attribute: atype, then value
AttrLess(a, b) ==
    IF a.atype # b.atype THEN StrLess(a.atype, b.atype)
    ELSE OptLess(a.value, b.value)

\* A stable insertion: a goes behind the elements not greater than it.
RECURSIVE InsertSorted(_, _)
InsertSorted(sorted, a) ==
    IF sorted = <<>> THEN << a >>
    ELSE IF AttrLess(a, Head(sorted)) THEN << a >> \o sorted
    ELSE << Head(sorted) >> \o InsertSorted(Tail(sorted), a)

\* Mutant of SortCon: the copy is hashed in the order given.
SortCon_Unsorted(con) == con

\* copy.sort()
RECURSIVE SortCon(_)
SortCon(con) ==
    IF con = <<>> THEN <<>>
    ELSE InsertSorted(SortCon(SubSeq(con, 1, Len(con) - 1)), con[Len(con)])

\* Sha3::v512 over the bytes absorbed: a digest of 64 bytes, taken as
\* injective. The first byte carries the input.
Sha3(input) ==
    [j \in 1..64 |-> IF j = 1 THEN <<"sha3", j, input>> ELSE <<"sha3", j>>]

\* f_i = H(2i + 1 || a.typ.len() || a.typ), i counted from 0
HashAtype(i, ar) ==
    Sha3(U64Be(U64(2 * i + 1)) \o U64Be(U64(Len(ar.atype))) \o AsBytes(ar.atype))

\* Mutant of HashValue: a missing value is hashed as the empty string.
HashValue_NoneAsEmpty(i, ar) ==
    Sha3(U64Be(U64(2 * i + 2))
           \o (IF ar.value = <<>> THEN U64Be(U64(0))
               ELSE U64Be(U64(Len(ar.value[1]))) \o AsBytes(ar.value[1])))

\* f'_i = H(2i + 2 || a.val.len() || a.val), IDENTITY_UNSET for None
HashValue(i, ar) ==
    Sha3(U64Be(U64(2 * i + 2))
           \o (IF ar.value = <<>> THEN U64Be(IDENTITY_UNSET)
               ELSE U64Be(U64(Len(ar.value[1]))) \o AsBytes(ar.value[1])))

\* What pre_h absorbs for the first n attributes of the sorted copy.
RECURSIVE Absorbed(_, _)
Absorbed(copy, n) ==
    IF n = 0 THEN << B(0) >>
    ELSE Absorbed(copy, n - 1) \o HashAtype(n - 1, copy[n]) \o HashValue(n - 1, copy[n])

\* Mutant of ExceedsMaxCon: the bound (2^63 - 2) / 2.
ExceedsMaxCon_Halved(len) == U64Gt(len, U64Shr1(MAX_CON))

\* self.con.len() > MAX_CON
ExceedsMaxCon(len) == U64Gt(len, MAX_CON)

\* Policy::derive: the result, whether anything was hashed, and self.con as
\* the call leaves it. Id::derive is taken as injective.
Derive(pol) ==
    IF ExceedsMaxCon(U64(Len(pol.con)))
    THEN [res |-> "ConstraintViolation", hashed |-> FALSE, con |-> pol.con]
    ELSE LET copy == SortCon(pol.con)
             tmp == Sha3(Absorbed(copy, Len(copy)) \o U64Be(U64(pol.timestamp)))
         IN  [res |-> "Ok", hashed |-> TRUE, con |-> pol.con, id |-> <<"id", tmp>>]

\* Policy::derive on the policy whose con is len copies of the attribute ar:
\* the copy is sorted as it stands, and the digest is a term over ar, len and
\* the timestamp.
DeriveRepeated(ar, len, timestamp) ==
    IF ExceedsMaxCon(len)
    THEN [res |-> "ConstraintViolation", hashed |-> FALSE]
    ELSE [res |-> "Ok", hashed |-> TRUE, id |-> <<"id", "repeated", ar, len, timestamp>>]

\* `item as char` pushed to a String: the UTF-8 encoding of U+0000..U+00FF
CharBytes(item) ==
    IF item < 128 THEN << item >>
    ELSE << 192 + (item \div 64), 128 + (item % 64) >>

\* '*'
STAR == 42

\* The loop of hintify_value from byte i (counted from 0) on, with
\* value.len() - AMOUNT_CHARS_TO_HIDE already evaluated to hide_from.
RECURSIVE HintLoop(_, _, _)
HintLoop(bytes, i, hide_from) ==
    IF i >= Len(bytes) THEN <<>>
    ELSE (IF U64Gt(U64(i + 1), hide_from) THEN << STAR >> ELSE CharBytes(bytes[i + 1]))
           \o HintLoop(bytes, i + 1, hide_from)

\* Mutant of HintifyValue: the comparison `i > value.len() - 4`.
HintifyValue_OffByOne(attr, build) ==
    IF attr.value = <<>> THEN [res |-> "panic"]
    ELSE LET value == attr.value[1]
         IN  IF Len(value) = 0 THEN [res |-> "Ok", s |-> <<>>]
             ELSE IF Len(value) < AMOUNT_CHARS_TO_HIDE /\ build = "debug"
             THEN [res |-> "panic"]
             ELSE [res |-> "Ok",
                   s |-> HintLoop(value, 0,
                           U64Sub(U64(Len(value)), AMOUNT_CHARS_TO_HIDE - 1))]

\* Attribute::hintify_value. "panic" is the unwrap of a None value and, in a
\* build with overflow checks ("debug"), value.len() - 4 below zero; another
\* build ("release") wraps the subtraction.
HintifyValue(attr, build) ==
    IF attr.value = <<>> THEN [res |-> "panic"]
    ELSE LET value == attr.value[1]
         IN  IF Len(value) = 0 THEN [res |-> "Ok", s |-> <<>>]
             ELSE IF Len(value) < AMOUNT_CHARS_TO_HIDE /\ build = "debug"
             THEN [res |-> "panic"]
             ELSE [res |-> "Ok",
                   s |-> HintLoop(value, 0,
                           U64Sub(U64(Len(value)), AMOUNT_CHARS_TO_HIDE))]

\* "pbdf.sidn-pbdf.mobilenumber.mobilenumber"
MOBILENUMBER ==
    << 112, 98, 100, 102, 46, 115, 105, 100, 110, 45, 112, 98, 100, 102, 46,
       109, 111, 98, 105, 108, 101, 110, 117, 109, 98, 101, 114, 46, 109, 111,
       98, 105, 108, 101, 110, 117, 109, 98, 101, 114 >>

\* "pbdf.pbdf.surfnet-2.id"
SURFNET_ID ==
    << 112, 98, 100, 102, 46, 112, 98, 100, 102, 46, 115, 117, 114, 102, 110,
       101, 116, 45, 50, 46, 105, 100 >>

\* "pbdf.nuts.agb.agbcode"
AGBCODE ==
    << 112, 98, 100, 102, 46, 110, 117, 116, 115, 46, 97, 103, 98, 46, 97,
       103, 98, 99, 111, 100, 101 >>

\* The arms of the match in to_hidden that call hintify_value.
IsHinted(atype) == atype = MOBILENUMBER \/ atype = SURFNET_ID \/ atype = AGBCODE

\* hidden_value of one attribute: the hint, or the empty string
HiddenValue(a, build) ==
    IF IsHinted(a.atype) THEN HintifyValue(a, build)
    ELSE [res |-> "Ok", s |-> <<>>]

\* Policy::to_hidden: a panic of one hintify_value is a panic of the call.
ToHidden(pol, build) ==
    IF \E k \in 1..Len(pol.con) : HiddenValue(pol.con[k], build).res = "panic"
    THEN [res |-> "panic"]
    ELSE [ res |-> "Ok",
           hidden |-> [ timestamp |-> pol.timestamp,
                        con |-> [k \in 1..Len(pol.con) |->
                                   [ atype |-> pol.con[k].atype,
                                     hidden_value |->
                                        << HiddenValue(pol.con[k], build).s >> ]] ] ]

\* The values of the model: "1234567890..." cut to n bytes, and "é12345".
Digits(n) == [k \in 1..n |-> 48 + (k % 10)]

NonAscii == << 195, 169, 49, 50, 51, 52, 53 >>

Attribute(atype, value) == [atype |-> atype, value |-> value]

\* Attributes told apart by a missing value, an empty value and the place of
\* the boundary between type and value ("a","bc" / "ab","c").
DeriveAttributes ==
    { Attribute(<< 97 >>, <<>>), Attribute(<< 97 >>, << <<>> >>),
      Attribute(<< 97 >>, << << 98, 99 >> >>), Attribute(<< 97, 98 >>, << << 99 >> >>) }

HintValues ==
    { <<>>, << NonAscii >> }
        \cup { << Digits(n) >> : n \in {0, 1, 2, 3, 4, 5, 9, MaxValueLen} }

HintAttributes ==
    { Attribute(MOBILENUMBER, v) : v \in HintValues }
        \cup { Attribute(SURFNET_ID, << Digits(n) >>) : n \in {3, MaxValueLen} }
        \cup { Attribute(AGBCODE, << Digits(4) >>) }
        \cup { Attribute(<< 97 >>, <<>>), Attribute(<< 97 >>, << Digits(MaxValueLen) >>) }

PoliciesOver(attrs) ==
    { [timestamp |-> t, con |-> c] :
        t \in 0..MaxTimestamp,
        c \in UNION { [1..n -> attrs] : n \in 0..MaxCon } }

\* The lengths around the bounds: 2^62 - 1, 2^62, 2^63 - 1, 2^63, 2^64 - 1.
LongLens ==
    { << 16383, 65535, 65535, 65535 >>, << 16384, 0, 0, 0 >>,
      << 32767, 65535, 65535, 65535 >>, << 32768, 0, 0, 0 >>, IDENTITY_UNSET }

BuildProfiles == {"debug", "release"}

\* The streaming state of a run that only calls identity.rs or reck.
StreamOff ==
    /\ plain = <<>>
    /\ r_pos = 0
    /\ sealer = [pc |-> "off", res |-> "none", priv_sign_key |-> "None"]
    /\ w = <<>>
    /\ segs = <<>>
    /\ attack = [kind |-> "pending"]
    /\ stream = <<>>
    /\ u_pos = 0
    /\ unsealer = NoUnsealer
    /\ sink = <<>>
    /\ checked = [tag |-> FALSE, sig |-> FALSE]

PolicyInit ==
    /\ StreamOff
    /\ NoDeckCall
    /\ NoPkgCall
    /\ NoWebCall
    /\ \/ policy \in PoliciesOver(DeriveAttributes) /\ other \in PoliciesOver(DeriveAttributes)
       \/ policy \in PoliciesOver(HintAttributes) /\ other = policy
    /\ id_call = [op |-> "none"]

\* policy.derive() and other.derive()
DeriveCall ==
    /\ id_call.op = "none"
    /\ LET d == Derive(policy)
       IN  /\ id_call' = [op |-> "derive", arg |-> policy, out |-> d,
                          out_other |-> Derive(other)]
           /\ policy' = [policy EXCEPT !.con = d.con]
    /\ UNCHANGED other
    /\ UNCHANGED << sealVars, unsealVars, attack, deckVars, pkgVars, webVars >>

\* derive() on a policy of len copies of the first attribute of policy
DeriveLongCall ==
    /\ id_call.op = "none"
    /\ policy.con # <<>>
    /\ \E len \in LongLens :
          id_call' = [op |-> "derive_long", len |-> len,
                      out |-> DeriveRepeated(policy.con[1], len, policy.timestamp)]
    /\ UNCHANGED << policy, other >>
    /\ UNCHANGED << sealVars, unsealVars, attack, deckVars, pkgVars, webVars >>

\* policy.to_hidden()
ToHiddenCall ==
    /\ id_call.op = "none"
    /\ \E build \in BuildProfiles :
          id_call' = [op |-> "to_hidden", build |-> build, arg |-> policy,
                      out |-> ToHidden(policy, build)]
    /\ UNCHANGED << policy, other >>
    /\ UNCHANGED << sealVars, unsealVars, attack, deckVars, pkgVars, webVars >>

\* policy.con[k].hintify_value()
HintifyValueCall ==
    /\ id_call.op = "none"
    /\ \E k \in 1..Len(policy.con), build \in BuildProfiles :
          id_call' = [op |-> "hintify_value", build |-> build, attr |-> policy.con[k],
                      out |-> HintifyValue(policy.con[k], build)]
    /\ UNCHANGED << policy, other >>
    /\ UNCHANGED << sealVars, unsealVars, attack, deckVars, pkgVars, webVars >>

PolicyNext ==
    \/ DeriveCall
    \/ DeriveLongCall
    \/ ToHiddenCall
    \/ HintifyValueCall

PolicySpec == PolicyInit /\ [][PolicyNext]_vars


(* --------------------------- reck: the Deck --------------------------- *)
MaxDeckPlain == 2
MaxCalls == 3

DeckKeys == { <<"ss", "key.1">>, <<"ss", "key.2">> }

DeckNonce == "nonce"

\* The counter values a Deck starts the run with: 0, 1, u32::MAX - 1, u32::MAX.
StartCounters == { U32(0), U32(1), << 65535, 65534 >>, << 65535, 65535 >> }

DeckPlains == { Plaintext(n) : n \in 0..MaxDeckPlain }

\* The Deck of Deck::new(key, nonce) after c successful wraps: a wrap works on
\* a clone of xoofff and changes the counter only.
DeckAfter(key, nonce, c) == [DeckNew(key, nonce) EXCEPT !.counter = c]

\* The run holds one wrapping Deck (state, d) and, for every key, one
\* unwrapping Deck (dec) made by Deck::new(key, nonce).
DeckInit ==
    /\ StreamOff
    /\ NoPolicyCall
    /\ NoPkgCall
    /\ NoWebCall
    /\ \E key \in DeckKeys, c \in StartCounters :
          /\ deck = [ state |-> "live", d |-> DeckAfter(key, DeckNonce, c),
                      dec |-> [k \in DeckKeys |-> DeckNew(k, DeckNonce)] ]
          /\ calls = << [op |-> "new", key |-> key, nonce |-> DeckNonce, wraps |-> c] >>
    /\ cipher = <<>>

\* No call has panicked: a panic ends the run.
DeckRunning ==
    ~(calls[Len(calls)].op \in {"unwrap", "unwrap_last"} /\ calls[Len(calls)].res = "panic")

\* The record of a wrap or wrap_last on the plaintext m.
WrapRecord(op, m, r) ==
    [ op |-> op, counter |-> deck.d.counter, plain |-> m, res |-> r.res,
      buf |-> r.buf, counter_after |-> r.deck.counter ]

\* deck.wrap(&mut buf) on a buffer holding the plaintext m
DeckWrapCall ==
    /\ deck.state = "live"
    /\ Len(calls) <= MaxCalls
    /\ DeckRunning
    /\ \E m \in DeckPlains :
          LET r == Deck_wrap(deck.d, m)
          IN  /\ cipher' = r.buf
              /\ deck' = [deck EXCEPT !.d = r.deck]
              /\ calls' = Append(calls, WrapRecord("wrap", m, r))
    /\ UNCHANGED << sealVars, unsealVars, attack, idVars, pkgVars, webVars >>

\* deck.wrap_last(&mut buf): the Deck is moved into the call.
DeckWrapLastCall ==
    /\ deck.state = "live"
    /\ Len(calls) <= MaxCalls
    /\ DeckRunning
    /\ \E m \in DeckPlains :
          LET r == Deck_wrap_last(deck.d, m)
          IN  /\ cipher' = r.buf
              /\ deck' = [state |-> "moved", dec |-> deck.dec]
              /\ calls' = Append(calls, WrapRecord("wrap_last", m, r))
    /\ UNCHANGED << sealVars, unsealVars, attack, idVars, pkgVars, webVars >>

\* The record of an unwrap or unwrap_last of the buffer by the Deck of key.
UnwrapRecord(op, key, r) ==
    [ op |-> op, key |-> key, input |-> cipher, res |-> r.res, buf |-> r.buf,
      before |-> deck.dec[key], after |-> r.deck ]

\* dec.unwrap(&mut buf) on the Deck of one of the keys
DeckUnwrapCall ==
    /\ Len(calls) <= MaxCalls \/ calls[Len(calls)].op = "reload"
    /\ DeckRunning
    /\ \E key \in DeckKeys :
          LET r == Deck_unwrap(deck.dec[key], cipher)
          IN  /\ calls' = Append(calls, UnwrapRecord("unwrap", key, r))
              /\ cipher' = r.buf
              /\ deck' = [deck EXCEPT !.dec[key] = r.deck]
    /\ UNCHANGED << sealVars, unsealVars, attack, idVars, pkgVars, webVars >>

\* dec.unwrap_last(&mut buf): the Deck is borrowed and stays with the caller.
DeckUnwrapLastCall ==
    /\ Len(calls) <= MaxCalls \/ calls[Len(calls)].op = "reload"
    /\ DeckRunning
    /\ \E key \in DeckKeys :
          LET r == Deck_unwrap_last(deck.dec[key], cipher)
          IN  /\ calls' = Append(calls, UnwrapRecord("unwrap_last", key, r))
              /\ cipher' = r.buf
              /\ deck' = [deck EXCEPT !.dec[key] = r.deck]
    /\ UNCHANGED << sealVars, unsealVars, attack, idVars, pkgVars, webVars >>

\* Between a wrap and the unwrap, one byte of the wrapped buffer is changed.
DeckFlipByte ==
    /\ Len(calls) <= MaxCalls
    /\ DeckRunning
    /\ calls[Len(calls)].op \in {"wrap", "wrap_last"}
    /\ \E pos \in 1..Len(cipher) :
          /\ cipher' = [cipher EXCEPT ![pos] = Flip(@)]
          /\ calls' = Append(calls, [op |-> "flip", pos |-> pos])
    /\ UNCHANGED deck
    /\ UNCHANGED << sealVars, unsealVars, attack, idVars, pkgVars, webVars >>

\* Between a wrap and the unwrap, the wrapped buffer is cut to a prefix.
DeckTruncate ==
    /\ Len(calls) <= MaxCalls
    /\ DeckRunning
    /\ calls[Len(calls)].op \in {"wrap", "wrap_last"}
    /\ \E n \in 0..(Len(cipher) - 1) :
          /\ cipher' = Slice(cipher, 0, n)
          /\ calls' = Append(calls, [op |-> "truncate", len |-> n])
    /\ UNCHANGED deck
    /\ UNCHANGED << sealVars, unsealVars, attack, idVars, pkgVars, webVars >>

\* The caller takes up again a buffer an earlier wrap of the run has written.
DeckReload ==
    /\ Len(calls) <= MaxCalls + 1
    /\ DeckRunning
    /\ calls[Len(calls)].op \in {"wrap", "wrap_last", "unwrap", "unwrap_last"}
    /\ \E j \in 2..Len(calls) :
          /\ calls[j].op \in {"wrap", "wrap_last"}
          /\ calls[j].res = "Ok"
          /\ cipher # calls[j].buf
          /\ cipher' = calls[j].buf
          /\ calls' = Append(calls, [op |-> "reload", of |-> j])
    /\ UNCHANGED deck
    /\ UNCHANGED << sealVars, unsealVars, attack, idVars, pkgVars, webVars >>

DeckNext ==
    \/ DeckWrapCall
    \/ DeckWrapLastCall
    \/ DeckUnwrapCall
    \/ DeckUnwrapLastCall
    \/ DeckFlipByte
    \/ DeckTruncate
    \/ DeckReload

DeckSpec == DeckInit /\ [][DeckNext]_vars


(* ------------------- pg-pkg: the signing_key handler ------------------ *)
MaxSignId == 2

\* Two attributes of one type that differ in the value.
PkgAttributes ==
    { Attribute(<< 97 >>, << << 98 >> >>), Attribute(<< 97 >>, << << 99 >> >>) }

\* Vec<Attribute> of up to MaxSignId attributes
AttributeLists == UNION { [1..n -> PkgAttributes] : n \in 0..MaxSignId }

SessionStatuses == {"Initialized", "Cancelled", "Done"}

\* The IrmaAuthResult the middleware left in the extensions of the request,
\* or none.
AuthResults ==
    { <<>> } \cup
    { << [con |-> c, status |-> st, proof_status |-> ps] >> :
        c \in AttributeLists, st \in SessionStatuses, ps \in { <<>>, << "Valid" >> } }

\* SigningKeyRequest
SigningKeyRequests ==
    { [pub_sign_id |-> p, priv_sign_id |-> q] :
        p \in AttributeLists, q \in { <<>> } \cup { << l >> : l \in AttributeLists } }

\* current_time_u64(): a time, or the error of a clock before the epoch
Clocks == { <<>> } \cup { << t >> : t \in 0..MaxTimestamp }

\* ids.iter().all(|attr| con.contains(attr))
AllContained(ids, con) ==
    \A i \in 1..Len(ids) : \E j \in 1..Len(con) : con[j] = ids[i]

\* keygen(sk, &id, &mut rng): the signing key of the identity
Keygen(id) == <<"ibs.usk", id>>

\* The SigningKeyExt made for the attributes ids at the time iat, or the error
\* of derive_ibs.
SigningKeyExt(ids, iat) ==
    LET pol == [timestamp |-> iat, con |-> ids]
    IN  IF ExceedsMaxCon(U64(Len(ids)))
        THEN [res |-> "Err"]
        ELSE [res |-> "Ok", ext |-> [key |-> Keygen(DeriveIbs(pol)), policy |-> pol]]

\* The response that carries the status and no key.
NoKeyResponse(a) ==
    [ res |-> "Ok", status |-> a.status, proof_status |-> a.proof_status,
      pub_sign_key |-> <<>>, priv_sign_key |-> <<>> ]

Unexpected == [res |-> "Err", err |-> "Unexpected"]

\* Mutant of signing_key: the attributes of priv_sign_id are not looked up in
\* the conjunction.
signing_key_PrivUnchecked(ext, body, now) ==
    IF ext = <<>> THEN Unexpected
    ELSE IF now = <<>> THEN [res |-> "Err", err |-> "Clock"]
    ELSE LET a == ext[1]
             iat == now[1]
         IN  IF a.status # "Done" THEN NoKeyResponse(a)
             ELSE IF ~AllContained(body.pub_sign_id, a.con) THEN Unexpected
             ELSE IF SigningKeyExt(body.pub_sign_id, iat).res = "Err" THEN Unexpected
             ELSE IF body.priv_sign_id # <<>>
                       /\ SigningKeyExt(body.priv_sign_id[1], iat).res = "Err"
             THEN Unexpected
             ELSE [ res |-> "Ok", status |-> a.status, proof_status |-> a.proof_status,
                    pub_sign_key |-> << SigningKeyExt(body.pub_sign_id, iat).ext >>,
                    priv_sign_key |->
                        IF body.priv_sign_id = <<>> THEN <<>>
                        ELSE << SigningKeyExt(body.priv_sign_id[1], iat).ext >> ]

\* signing_key(req, msk, body): the Result it returns, for the extensions ext
\* of the request and the clock reading now.
signing_key(ext, body, now) ==
    IF ext = <<>> THEN Unexpected
    ELSE IF now = <<>> THEN [res |-> "Err", err |-> "Clock"]
    ELSE LET a == ext[1]
             iat == now[1]
         IN  IF a.status # "Done" THEN NoKeyResponse(a)
             ELSE IF ~AllContained(body.pub_sign_id, a.con) THEN Unexpected
             ELSE IF SigningKeyExt(body.pub_sign_id, iat).res = "Err" THEN Unexpected
             ELSE IF body.priv_sign_id # <<>>
                       /\ ( \/ ~AllContained(body.priv_sign_id[1], a.con)
                            \/ SigningKeyExt(body.priv_sign_id[1], iat).res = "Err" )
             THEN Unexpected
             ELSE [ res |-> "Ok", status |-> a.status, proof_status |-> a.proof_status,
                    pub_sign_key |-> << SigningKeyExt(body.pub_sign_id, iat).ext >>,
                    priv_sign_key |->
                        IF body.priv_sign_id = <<>> THEN <<>>
                        ELSE << SigningKeyExt(body.priv_sign_id[1], iat).ext >> ]

PkgInit ==
    /\ StreamOff
    /\ NoPolicyCall
    /\ NoDeckCall
    /\ NoWebCall
    /\ \E ext \in AuthResults, body \in SigningKeyRequests, now \in Clocks :
          pkg = [ pc |-> "request", auth |-> ext, extensions |-> ext,
                  body |-> body, now |-> now ]

\* The handler runs on the request; the extensions of the request are cleared
\* once the IrmaAuthResult was taken from them.
SigningKeyCall ==
    /\ pkg.pc = "request"
    /\ pkg' = [ pc |-> "responded", auth |-> pkg.auth,
                extensions |-> IF pkg.extensions = <<>> THEN pkg.extensions ELSE <<>>,
                body |-> pkg.body, now |-> pkg.now,
                resp |-> signing_key(pkg.extensions, pkg.body, pkg.now) ]
    /\ UNCHANGED << sealVars, unsealVars, attack, idVars, deckVars, webVars >>

PkgNext == SigningKeyCall

PkgSpec == PkgInit /\ [][PkgNext]_vars


(* ------------------ irmaseal-core stream/web: aead_nonce -------------- *)
\* crate::constants of irmaseal-core
IV_SIZE == 16
NONCE_SIZE == 12

NonceFills == 2

\* The nonces aead_nonce is called with: slices of NONCE_SIZE bytes, and of one
\* byte less and one byte more.
WebNonces ==
    { [j \in 1..n |-> B((f * j) % 256)] :
        n \in (NONCE_SIZE - 1)..(NONCE_SIZE + 1), f \in 1..NonceFills }

WebCounters == StartCounters \cup { U32(256) }

\* copy_from_slice panics unless source and destination have the same length.
CopyFits(dst_len, src_len) == dst_len = src_len

\* aead_nonce(nonce, counter, last_block): the IV, or the panic of the first
\* copy_from_slice whose lengths differ.
aead_nonce(nonce, counter, last_block) ==
    IF ~CopyFits(NONCE_SIZE, Len(nonce)) THEN [res |-> "panic", line |-> 16]
    ELSE IF ~CopyFits((IV_SIZE - 1) - NONCE_SIZE, Len(BeU32(counter)))
    THEN [res |-> "panic", line |-> 17]
    ELSE [ res |-> "Ok",
           iv |-> nonce \o BeU32(counter) \o << B(IF last_block THEN 1 ELSE 0) >> ]

WebInit ==
    /\ StreamOff
    /\ NoPolicyCall
    /\ NoDeckCall
    /\ NoPkgCall
    /\ \E nonce \in WebNonces, counter \in WebCounters, last_block \in BOOLEAN :
          web = [ pc |-> "call", nonce |-> nonce, counter |-> counter,
                  last_block |-> last_block ]

AeadNonceCall ==
    /\ web.pc = "call"
    /\ web' = [ pc |-> "returned", nonce |-> web.nonce, counter |-> web.counter,
                last_block |-> web.last_block,
                out |-> aead_nonce(web.nonce, web.counter, web.last_block) ]
    /\ UNCHANGED << sealVars, unsealVars, attack, idVars, deckVars, pkgVars >>

WebNext == AeadNonceCall

WebSpec == WebInit /\ [][WebNext]_vars


(* ------------------------------ claims -------------------------------- *)
IsPrefix(a, b) == Len(a) <= Len(b) /\ a = SubSeq(b, 1, Len(a))

\* The payload bytes of the first k segments seal wrote.
PayloadsBefore[k \in 0..Len(segs)] ==
    IF k = 0 THEN <<>> ELSE PayloadsBefore[k - 1] \o segs[k].payload

\* The (1-based) segment holding offset pos of the sealed bytes.
SegOf(pos) ==
    CHOOSE k \in 1..Len(segs) : segs[k].at <= pos /\ pos < segs[k].at + segs[k].len

\* unseal was called for a listed recipient with that recipient's key.
Matching ==
    /\ unsealer.ident \in Recipients
    /\ unsealer.usk = UskOf(unsealer.ident)

Finished == unsealer.pc = "done"

ReturnedErrors ==
    { "NotPostGuard", "IncorrectVersion", "FormatViolation", "ConstraintViolation",
      "IncorrectSignature", "WrongTag", "UnknownIdentifier", "Overflow" }

\* C1: unsealing exactly the bytes seal wrote, as a recipient of the policy
\* with the matching key, returns Ok, writes exactly the plaintext and reports
\* the policy of the public signing key as vr.public.
C1_RoundTrip ==
    (attack.kind = "none" /\ Finished /\ Matching)
        => /\ unsealer.res = "Ok"
           /\ sink = plain
           /\ unsealer.vr.public = PubPol

\* C2: when the final segment carries no payload bytes, unseal accepts it and
\* returns Ok, having written exactly the plaintext; no assertion fails.
C2_EmptyFinalSegment ==
    ( /\ attack.kind = "none" /\ Finished /\ Matching
      /\ segs[Len(segs)].payload = <<>> )
        => unsealer.res = "Ok" /\ sink = plain

\* C3: unseal grows the sink only by the message of a segment that carries
\* the tag of the Deck and the signature over the transcript at the unsealer's
\* counter and final flag.
C3_WriteOnlyVerified ==
    [][ sink' # sink =>
          /\ checked.tag /\ checked.sig
          /\ unsealer.pc = "write"
          /\ sink' = sink \o unsealer.m ]_vars

C3_Witness ==
    /\ unsealer.pc = "close"
    /\ sink # <<>>
    /\ sink = plain

\* C4: with one byte of a sealed segment changed, unseal never returns Ok and
\* the sink holds at most the plaintext of the segments before the changed one.
C4_TamperedSegmentRejected ==
    (attack.kind = "flip" /\ attack.pos >= PayloadStart)
        => /\ unsealer.res # "Ok"
           /\ IsPrefix(sink, PayloadsBefore[SegOf(attack.pos) - 1])

C4_Witness ==
    /\ attack.kind = "flip" /\ attack.pos >= PayloadStart
    /\ Finished /\ Matching
    /\ unsealer.deck_res = "WrongTag"
    /\ sink = <<>>

\* C5: a tag mismatch of the Deck met during unseal is returned to the caller
\* as the error WrongTag.
C5_WrongTagReturned ==
    (Finished /\ unsealer.deck_res = "WrongTag") => unsealer.res = "WrongTag"

\* C6: on a proper prefix of a sealed stream, Unsealer::new followed by unseal
\* returns an error (read here as any returned error) and never Ok.
C6_TruncationYieldsError ==
    (attack.kind = "truncate" /\ Finished) => unsealer.res \in ReturnedErrors

\* The first (1-based) position of the stream whose segment is not the one
\* seal wrote there.
FirstOutOfPosition ==
    IF attack.kind = "dup" THEN attack.i + 2 ELSE attack.i + 1

\* C7: with segments exchanged, repeated or left out, unseal does not return
\* Ok and the sink holds at most the plaintext of the segments before the
\* first out-of-position one.
C7_ReorderRejected ==
    (attack.kind \in {"swap", "dup", "drop"})
        => /\ unsealer.res # "Ok"
           /\ IsPrefix(sink, PayloadsBefore[Min(FirstOutOfPosition - 1, Len(segs))])

\* The Deck accepted an out-of-position segment and the segment signature
\* rejected it.
C7_Witness ==
    /\ attack.kind = "swap"
    /\ Finished /\ Matching
    /\ unsealer.deck_res = "Ok"
    /\ unsealer.res = "IncorrectSignature"

\* C8: with one byte of the serialized header changed, Unsealer::new returns
\* IncorrectSignature and no Unsealer is produced.
C8_HeaderTamperRejected ==
    ( /\ attack.kind = "flip"
      /\ attack.pos >= PREAMBLE_SIZE /\ attack.pos < PREAMBLE_SIZE + HeaderLen
      /\ unsealer.pc # "idle" )
        => unsealer.pc = "done" /\ unsealer.res = "IncorrectSignature"

C8_Witness ==
    /\ attack.kind = "flip"
    /\ attack.pos >= PREAMBLE_SIZE /\ attack.pos < PREAMBLE_SIZE + HeaderLen
    /\ Finished
    /\ unsealer.res = "IncorrectSignature"

\* The policy seal signed the segments with.
SignerPolicy ==
    IF sealer.priv_sign_key = "None" THEN PubPol ELSE sealer.priv_sign_key

\* C9: when unseal returns Ok, vr.public is the policy of the header
\* signature, and vr.private is None exactly when the signer policy of
\* segment 0 equals it, and that policy otherwise; without a private signing
\* key vr.private is None.
C9_VerificationResult ==
    unsealer.res = "Ok"
        => /\ unsealer.vr.public = PubPol
           /\ unsealer.vr.private =
                 IF SignerPolicy = PubPol THEN "None" ELSE SignerPolicy
           /\ sealer.priv_sign_key = "None" => unsealer.vr.private = "None"

C9_Witness ==
    /\ unsealer.res = "Ok"
    /\ sealer.priv_sign_key = PrivPol
    /\ unsealer.vr.private = PrivPol

\* C10: unseal called with an identifier that is no key of header.recipients
\* returns UnknownIdentifier, having read no payload byte and neither written
\* nor closed the sink.
C10_UnknownIdentifier ==
    (unsealer.ident \notin Recipients /\ unsealer.ident # "none")
        => /\ unsealer.pc = "done"
           /\ unsealer.res = "UnknownIdentifier"
           /\ u_pos = UnsealerNewOf(stream).pos
           /\ sink = <<>>
           /\ ~unsealer.w_closed

C10_Witness ==
    /\ unsealer.ident = "Eve"
    /\ unsealer.res = "UnknownIdentifier"
    /\ attack.kind = "none"
    /\ u_pos < Len(stream)

\* C11: unseal called for a listed recipient with a user secret key of another
\* identity fails the tag check of the Deck on segment 0, returns WrongTag and
\* writes no plaintext.
C11_WrongKeyWrongTag ==
    ( /\ attack.kind = "none" /\ Finished
      /\ unsealer.ident \in Recipients /\ ~Matching )
        => /\ unsealer.deck_res = "WrongTag"
           /\ unsealer.counter = U32Zero
           /\ unsealer.res = "WrongTag"
           /\ sink = <<>>

\* How often the attribute a occurs in con.
Count(con, a) == Cardinality({ k \in 1..Len(con) : con[k] = a })

\* a and b hold the same attributes, each the same number of times.
SameMultiset(a, b) ==
    /\ Len(a) = Len(b)
    /\ \A k \in 1..Len(a) : Count(a, a[k]) = Count(b, a[k])

\* C12: two policies with the same timestamp whose con are permutations of
\* each other derive the same identity, and derive leaves con of the policy
\* it is called on in the order it had.
C12_OrderInvariance ==
    id_call.op = "derive" =>
        /\ ( /\ id_call.arg.timestamp = other.timestamp
             /\ SameMultiset(id_call.arg.con, other.con) )
              => /\ id_call.out.res = "Ok" /\ id_call.out_other.res = "Ok"
                 /\ id_call.out.id = id_call.out_other.id
        /\ policy.con = id_call.arg.con

\* Two attributes in one order and in the other.
C12_Witness ==
    /\ id_call.op = "derive"
    /\ Len(policy.con) = 2 /\ policy.con[1] # policy.con[2]
    /\ other.con = << policy.con[2], policy.con[1] >>
    /\ ~AttrLess(policy.con[1], policy.con[2])
    /\ other.timestamp = policy.timestamp
    /\ id_call.out.id = id_call.out_other.id

\* C13: two policies derive the same identity only if they have the same
\* timestamp and the same multiset of attributes.
C13_DeriveInjective ==
    ( /\ id_call.op = "derive"
      /\ id_call.out.res = "Ok" /\ id_call.out_other.res = "Ok"
      /\ id_call.out.id = id_call.out_other.id )
        => /\ id_call.arg.timestamp = other.timestamp
           /\ SameMultiset(id_call.arg.con, other.con)

\* The value None against Some("") at the same type and timestamp.
C13_Witness ==
    /\ id_call.op = "derive"
    /\ policy.con = << Attribute(<< 97 >>, <<>>) >>
    /\ other.con = << Attribute(<< 97 >>, << <<>> >>) >>
    /\ other.timestamp = policy.timestamp
    /\ id_call.out.id # id_call.out_other.id

IsAscii(s) == \A k \in 1..Len(s) : s[k] < 128

\* A call of hintify_value on an attribute of a hinted type that has a value.
HintedCall ==
    /\ id_call.op = "hintify_value"
    /\ IsHinted(id_call.attr.atype)
    /\ id_call.attr.value # <<>>

\* C14: for a hinted attribute with an ASCII value of at least 4 bytes,
\* hintify_value returns a string of the same length whose last 4 characters
\* are '*' and whose earlier characters are those of the value; "123456789"
\* becomes "12345****".
C14_HintCorrect ==
    ( /\ HintedCall
      /\ Len(id_call.attr.value[1]) >= 4
      /\ IsAscii(id_call.attr.value[1]) )
        => LET v == id_call.attr.value[1]
               s == id_call.out.s
           IN  /\ id_call.out.res = "Ok"
               /\ Len(s) = Len(v)
               /\ \A k \in 1..Len(v) :
                     s[k] = IF k > Len(v) - 4 THEN 42 ELSE v[k]
               /\ v = << 49, 50, 51, 52, 53, 54, 55, 56, 57 >>
                     => s = << 49, 50, 51, 52, 53, 42, 42, 42, 42 >>

C14_Witness ==
    /\ HintedCall
    /\ id_call.attr.value[1] = << 49, 50, 51, 52, 53, 54, 55, 56, 57 >>
    /\ id_call.out.res = "Ok"
    /\ id_call.out.s = << 49, 50, 51, 52, 53, 42, 42, 42, 42 >>

\* C15: for a hinted attribute with a value of fewer than 4 bytes,
\* hintify_value does not fail and returns as many '*' as the value has bytes.
C15_ShortValueHidden ==
    (HintedCall /\ Len(id_call.attr.value[1]) < 4)
        => /\ id_call.out.res = "Ok"
           /\ Len(id_call.out.s) = Len(id_call.attr.value[1])
           /\ \A k \in 1..Len(id_call.out.s) : id_call.out.s[k] = 42

\* C16: to_hidden returns, for every policy, a hidden policy with the same
\* timestamp and the same types in the same order, in which every attribute
\* of a type that is not hinted has the empty string as hidden value.
C16_ToHiddenHides ==
    id_call.op = "to_hidden" =>
        /\ id_call.out.res = "Ok"
        /\ id_call.out.hidden.timestamp = id_call.arg.timestamp
        /\ Len(id_call.out.hidden.con) = Len(id_call.arg.con)
        /\ \A k \in 1..Len(id_call.arg.con) :
              /\ id_call.out.hidden.con[k].atype = id_call.arg.con[k].atype
              /\ ~IsHinted(id_call.arg.con[k].atype)
                    => id_call.out.hidden.con[k].hidden_value = << <<>> >>

WrapOps == {"wrap", "wrap_last"}
UnwrapOps == {"unwrap", "unwrap_last"}

\* C18: a buffer wrapped on a Deck at any counter and then unwrapped by a Deck
\* created with the same key and nonce gives Ok and exactly the plaintext,
\* for wrap and unwrap as for wrap_last and unwrap_last.
C18_DeckRoundTrip ==
    \A k \in 2..(Len(calls) - 1) :
        ( /\ calls[k].op \in WrapOps
          /\ calls[k + 1].op \in UnwrapOps
          /\ calls[k + 1].key = calls[1].key )
            => /\ calls[k + 1].res = "Ok"
               /\ calls[k + 1].buf = calls[k].plain

\* A plaintext wrapped at counter u32::MAX - 1 comes back.
C18_Witness ==
    /\ Len(calls) = 3
    /\ calls[1].wraps = << 65535, 65534 >>
    /\ calls[2].op = "wrap_last" /\ Len(calls[2].plain) = MaxDeckPlain
    /\ calls[3].op = "unwrap_last" /\ calls[3].key = calls[1].key
    /\ calls[3].res = "Ok" /\ calls[3].buf = calls[2].plain

\* The successful wraps among the first k calls.
SuccessfulWraps(k) ==
    Cardinality({ i \in 2..k : calls[i].op \in WrapOps /\ calls[i].res = "Ok" })

RECURSIVE U32Plus(_, _)
U32Plus(c, n) == IF n = 0 THEN c ELSE U32Plus(U32Inc(c), n - 1)

\* C19: the k-th successful wrap since Deck::new appends be_u32(k - 1) and a
\* tag of 32 bytes: the buffer grows by 36 bytes and the ciphertext has the
\* length of the plaintext.
C19_WrapCounter ==
    \A k \in 2..Len(calls) :
        (calls[k].op \in WrapOps /\ calls[k].res = "Ok")
            => LET n == Len(calls[k].plain)
                   buf == calls[k].buf
               IN  /\ Len(buf) = n + 36
                   /\ Slice(buf, n, n + 4)
                        = BeU32(U32Plus(calls[1].wraps, SuccessfulWraps(k - 1)))
                   /\ \A i \in (n + 5)..(n + 36) : buf[i][1] = "tag"

\* Two wraps in a row on a new Deck write the counters 0 and 1.
C19_Witness ==
    /\ Len(calls) >= 3
    /\ calls[1].wraps = U32(0)
    /\ calls[2].op = "wrap" /\ calls[2].res = "Ok"
    /\ calls[3].op = "wrap" /\ calls[3].res = "Ok"
    /\ Slice(calls[2].buf, Len(calls[2].plain), Len(calls[2].plain) + 4)
         = << B(0), B(0), B(0), B(0) >>
    /\ Slice(calls[3].buf, Len(calls[3].plain), Len(calls[3].plain) + 4)
         = << B(0), B(0), B(0), B(1) >>

\* C20: no two calls of wrap or wrap_last on one Deck, whatever they
\* returned, encrypt and write the trailer with the same counter value.
C20_NoCounterReuse ==
    \A i \in 2..Len(calls), j \in 2..Len(calls) :
        (i < j /\ calls[i].op \in WrapOps /\ calls[j].op \in WrapOps)
            => calls[i].counter # calls[j].counter

\* The call k unwraps, with the key and nonce of the wrapping Deck, a buffer
\* that a wrap wrote and that was changed or cut since.
UnwrapsDamaged(k) ==
    /\ k >= 3
    /\ calls[k].op \in UnwrapOps
    /\ calls[k].key = calls[1].key
    /\ calls[k - 1].op \in {"flip", "truncate"}

\* C21: unwrap of a buffer that differs in a byte of ciphertext, counter or
\* tag from the buffer wrap wrote under the same key and nonce, or that is
\* shorter than it, returns WrongTag; and on WrongTag the buffer is as it was
\* given and the Deck is unchanged.
C21_WrongTagOnDamage ==
    \A k \in 2..Len(calls) :
        /\ UnwrapsDamaged(k) => calls[k].res = "WrongTag"
        /\ (calls[k].op \in UnwrapOps /\ calls[k].res = "WrongTag")
              => /\ calls[k].buf = calls[k].input
                 /\ calls[k].after = calls[k].before

\* The wrapping Deck as the call k found it.
DeckBefore(k) == DeckAfter(calls[1].key, calls[1].nonce, calls[k].counter)

\* C22: on every Deck state and buffer, wrap_last writes the bytes wrap
\* writes (ciphertext, counter and tag) with the same result, and unwrap_last
\* accepts the buffers unwrap accepts and leaves the same plaintext.
C22_LastEqualsPlain ==
    \A k \in 2..Len(calls) :
        /\ calls[k].op = "wrap_last" =>
              /\ calls[k].buf = Deck_wrap(DeckBefore(k), calls[k].plain).buf
              /\ calls[k].res = Deck_wrap(DeckBefore(k), calls[k].plain).res
        /\ calls[k].op = "wrap" =>
              /\ calls[k].buf = Deck_wrap_last(DeckBefore(k), calls[k].plain).buf
              /\ calls[k].res = Deck_wrap_last(DeckBefore(k), calls[k].plain).res
        /\ calls[k].op = "unwrap_last" =>
              /\ calls[k].res = Deck_unwrap(calls[k].before, calls[k].input).res
              /\ calls[k].buf = Deck_unwrap(calls[k].before, calls[k].input).buf
        /\ calls[k].op = "unwrap" =>
              /\ calls[k].res = Deck_unwrap_last(calls[k].before, calls[k].input).res
              /\ calls[k].buf = Deck_unwrap_last(calls[k].before, calls[k].input).buf

\* wrap_last wrote a buffer at counter 1 and unwrap_last accepted it.
C22_Witness ==
    /\ Len(calls) = 3
    /\ calls[2].op = "wrap_last" /\ calls[2].counter = U32(1)
    /\ Len(calls[2].plain) = MaxDeckPlain
    /\ calls[3].op = "unwrap_last" /\ calls[3].key = calls[1].key
    /\ calls[3].res = "Ok" /\ calls[3].buf = calls[2].plain

\* C23: once wrap_last or unwrap_last has been called on a Deck, no wrap,
\* unwrap, wrap_last or unwrap_last is performed on that Deck.
C23_LastIsTerminal ==
    \A i \in 2..Len(calls), j \in 2..Len(calls) :
        i < j =>
            /\ calls[i].op = "wrap_last" => calls[j].op \notin WrapOps
            /\ calls[i].op = "unwrap_last" =>
                  ~(calls[j].op \in UnwrapOps /\ calls[j].key = calls[i].key)

\* C24: wrap on a Deck whose counter is 2^32 - 1 returns Overflow and leaves
\* the counter at 2^32 - 1, never at 0; wrap at a smaller counter returns Ok
\* and leaves the counter greater by exactly one.
C24_CounterExhaustion ==
    \A k \in 2..Len(calls) :
        calls[k].op \in WrapOps =>
            LET c == calls[k].counter
                after == calls[k].counter_after
            IN  IF c = << 65535, 65535 >>
                THEN calls[k].res = "Overflow" /\ after = c
                ELSE /\ calls[k].res = "Ok"
                     /\ after = IF c[2] < 65535 THEN << c[1], c[2] + 1 >>
                                ELSE << c[1] + 1, 0 >>

\* A wrap at 2^32 - 2 is Ok and the next one, at 2^32 - 1, is Overflow.
C24_Witness ==
    /\ Len(calls) >= 3
    /\ calls[2].op = "wrap" /\ calls[2].counter = << 65535, 65534 >>
    /\ calls[2].res = "Ok" /\ calls[2].counter_after = << 65535, 65535 >>
    /\ calls[3].op = "wrap" /\ calls[3].counter = << 65535, 65535 >>
    /\ calls[3].res = "Overflow" /\ calls[3].counter_after = << 65535, 65535 >>

\* The keys in the response of the handler.
KeysReturned ==
    IF pkg.resp.res = "Ok"
    THEN { k \in {"pub_sign_key", "priv_sign_key"} : pkg.resp[k] # <<>> }
    ELSE {}

\* Every attribute the request names is in the conjunction of the session.
RequestCovered ==
    /\ AllContained(pkg.body.pub_sign_id, pkg.auth[1].con)
    /\ pkg.body.priv_sign_id # <<>> => AllContained(pkg.body.priv_sign_id[1], pkg.auth[1].con)

C26_WireSizesAgree ==
    (sealer.pc = "done" /\ sealer.res = "Ok" /\ unsealer.pc = "loop") =>
        \A k \in 1..Len(segs) :
            IF segs[k].last
            THEN segs[k].len < unsealer.bufsize
            ELSE /\ segs[k].len = SegmentSize + TAG_SIZE + COUNTER_LEN
                 /\ segs[k].len = unsealer.bufsize

\* Segment k of the sealed bytes, opened with the key and nonce of the sealer:
\* the plaintext of the segment and its signature.
Opened(k) == DeckUnwrap(DeckNew(SharedSecret, TheHeader.iv), SegBytes(k)).buf

\* The signature seal put at the end of segment k.
SigOf(k) == Slice(Opened(k), Len(Opened(k)) - SIG_BYTES, Len(Opened(k)))

\* The bytes that signature was made over.
SignedTranscript(k) == SigOf(k)[1][4]

DomainByte(k) == SignedTranscript(k)[Len(SignedTranscript(k))]

\* C27: in a completed run of seal every segment but the last is signed with
\* the domain byte 0x00 and wrapped with wrap, the last segment alone is signed
\* with 0x01 and wrapped with wrap_last, and nothing is written after it; and
\* unseal verifies with the flag 0x01 only at the end of its input.
C27_FinalMarking ==
    /\ (sealer.pc = "done" /\ sealer.res = "Ok") =>
          /\ Len(segs) >= 1
          /\ \A k \in 1..Len(segs) :
                IF k < Len(segs)
                THEN segs[k].op = "wrap" /\ DomainByte(k) = B(0)
                ELSE /\ segs[k].op = "wrap_last" /\ DomainByte(k) = B(1)
                     /\ segs[k].at + segs[k].len = Len(w)
    /\ ("is_last" \in DOMAIN unsealer /\ unsealer.is_last) => u_pos = Len(stream)

\* seal wrote two segments, the first signed with 0x00 and the second with
\* 0x01, and unseal has verified a segment as the final one.
C27_Witness ==
    /\ sealer.pc = "done" /\ sealer.res = "Ok"
    /\ Len(segs) = 2
    /\ DomainByte(1) = B(0) /\ segs[1].op = "wrap"
    /\ DomainByte(2) = B(1) /\ segs[2].op = "wrap_last"
    /\ "is_last" \in DOMAIN unsealer /\ unsealer.is_last
    /\ u_pos = Len(stream)

\* The plaintext bytes in segment k as seal wrote it: what is left of the
\* opened segment without the policy at the head of segment 0 and without
\* the signature.
PlainOf(k) ==
    Slice(Opened(k),
          IF k = 1 THEN POL_SIZE_SIZE + PolLenOf(SignerPolicy) ELSE 0,
          Len(Opened(k)) - SIG_BYTES)

RunningPlain[k \in 0..Len(segs)] ==
    IF k = 0 THEN <<>> ELSE RunningPlain[k - 1] \o PlainOf(k)

\* The header signature in the sealed bytes.
HeaderSigOf(s) ==
    Slice(s, PREAMBLE_SIZE + HeaderLen + SIG_SIZE_SIZE,
             PREAMBLE_SIZE + HeaderLen + SIG_SIZE_SIZE + SIG_BYTES)

\* What unseal hands to verify_segment for segment k: the opened segment,
\* for segment 0 after extract_policy.
SegmentOf(k) == IF k = 1 THEN ExtractPolicy(Opened(k)).buf ELSE Opened(k)

\* The verifier of the Unsealer before segment k + 1: the one Unsealer::new
\* leaves, updated by verify_segment on the segments 1..k in order.
UnsealerVerifier[k \in 0..Len(segs)] ==
    IF k = 0 THEN UnsealerNewOf(w).verifier
    ELSE VerifySegment(SegmentOf(k), UnsealerVerifier[k - 1], DeriveIbs(SignerPolicy),
                       U32(k - 1), segs[k].last, "release").verifier

PolicyHead == BeU32(U32(PolLenOf(SignerPolicy))) \o SerializePolicy(SignerPolicy)

C30_PolicyMustFit ==
    /\ ( /\ sealer.pc \in {"loop", "flush", "done"}
         /\ SegmentSize < POL_SIZE_SIZE + PolLenOf(SignerPolicy) + 1 )
          => (sealer.pc = "done" /\ sealer.res = "ConstraintViolation")
    /\ Len(segs) >= 1 => SegmentSize - (POL_SIZE_SIZE + PolLenOf(SignerPolicy)) >= 1

\* What seal writes before the first segment.
WireHead ==
    PRELUDE \o VERSION_V3 \o BeU32(U32(HeaderLen)) \o SerializeHeader
        \o BeU32(U32(SIG_BYTES + PolLenOf(PubPol)))
        \o Sign(DeriveIbs(PubPol), SerializeHeader) \o SerializePolicy(PubPol)

\* The counter in the trailer the Deck put behind segment k.
TrailerCounter(k) ==
    Slice(SegBytes(k), segs[k].len - COUNTER_TAG_LEN, segs[k].len - TAG_LEN)

\* The bytes seal has written are the head, then the segments one after the
\* other, each with the counter of its place in the trailer.
WireInOrder ==
    sealer.pc \in {"loop", "flush", "done"} =>
        /\ IsPrefix(WireHead, w)
        /\ \A k \in 1..Len(segs) :
              /\ segs[k].at = (IF k = 1 THEN Len(WireHead)
                               ELSE segs[k - 1].at + segs[k - 1].len)
              /\ TrailerCounter(k) = BeU32(U32(k - 1))
        /\ Len(w) = (IF segs = <<>> THEN Len(WireHead)
                     ELSE segs[Len(segs)].at + segs[Len(segs)].len)

\* Unsealer::new, given the bytes seal wrote, stops reading where segment 0
\* begins.
NewStopsAtPayload ==
    (attack.kind = "none" /\ unsealer.pc = "created") => u_pos = Len(WireHead)

\* C31: seal writes PRELUDE, VERSION, the header length, the header, the
\* length of the header signature, the header signature and then the segments
\* in the order of their counters, with nothing in between and by appending
\* only; and Unsealer::new consumes exactly the bytes before segment 0.
C31_WireOrder ==
    /\ [](WireInOrder /\ NewStopsAtPayload)
    /\ [][IsPrefix(w, w')]_vars

\* seal has written the head and two segments, and Unsealer::new has read the
\* head of these bytes.
C31_Witness ==
    /\ sealer.pc = "done" /\ sealer.res = "Ok"
    /\ Len(segs) = 2
    /\ w = Concat3(WireHead, SegBytes(1), SegBytes(2))
    /\ attack.kind = "none" /\ unsealer.pc = "created"
    /\ u_pos = Len(WireHead)

\* The header bytes and the header-signature blob, cut out of the bytes the
\* unsealer is given by the two length fields in these bytes.
HeaderRawIn(s) ==
    Slice(s, PREAMBLE_SIZE,
          Min(PREAMBLE_SIZE + FromBeU32(Slice(s, 6, PREAMBLE_SIZE)), Len(s)))

SigBlobIn(s) ==
    LET h_end == PREAMBLE_SIZE + Len(HeaderRawIn(s))
    IN  IF Len(s) - h_end < SIG_SIZE_SIZE THEN <<>>
        ELSE Slice(s, h_end + SIG_SIZE_SIZE,
                   Min(h_end + SIG_SIZE_SIZE
                         + FromBeU32(Slice(s, h_end, h_end + SIG_SIZE_SIZE)),
                       Len(s)))

\* The blob holds a signature followed by a policy, and the signature is the
\* one the key of that policy gives on the header bytes.
HeaderSigGenuine(s) ==
    /\ Len(SigBlobIn(s)) >= SIG_BYTES + PolLen
    /\ \E pol \in SignerPolicies :
          /\ Slice(SigBlobIn(s), SIG_BYTES, SIG_BYTES + PolLen) = SerializePolicy(pol)
          /\ Slice(SigBlobIn(s), 0, SIG_BYTES) = Sign(DeriveIbs(pol), HeaderRawIn(s))

\* The preamble is whole and right, and the blob is a signature with a policy.
ReachesVerification(s) ==
    /\ Len(s) >= PREAMBLE_SIZE
    /\ Slice(s, 0, 4) = PRELUDE
    /\ Slice(s, 4, 6) = VERSION_V3
    /\ Len(SigBlobIn(s)) >= SIG_BYTES + PolLen
    /\ \E pol \in SignerPolicies :
          Slice(SigBlobIn(s), SIG_BYTES, SIG_BYTES + PolLen) = SerializePolicy(pol)

\* Unsealer::new gave an Unsealer: it is there, or unseal has consumed it.
NewReturnedOk == unsealer.pc = "created" \/ unsealer.ident # "none"

NewReturned == unsealer.pc # "idle"

\* C32: Unsealer::new returns Ok only if the header signature in the stream
\* is the signature of the identity of the policy in the blob over the header
\* bytes read; a header whose signature does not verify is answered by
\* IncorrectSignature whether or not it would deserialize; and fewer bytes
\* than a preamble give NotPostGuard.
C32_VerifyBeforeParse ==
    /\ NewReturnedOk => HeaderSigGenuine(stream)
    /\ unsealer.pc = "created" =>
          /\ unsealer.verifier = HeaderRawIn(stream)
          /\ unsealer.header = TheHeader
          /\ DeserializeHeader(HeaderRawIn(stream)).res = "Ok"
    /\ (NewReturned /\ ReachesVerification(stream) /\ ~HeaderSigGenuine(stream))
          => (unsealer.pc = "done" /\ unsealer.res = "IncorrectSignature")
    /\ (NewReturned /\ Len(stream) < PREAMBLE_SIZE)
          => (unsealer.pc = "done" /\ unsealer.res = "NotPostGuard")

\* Unsealer::new has refused bytes whose header no longer deserializes by
\* IncorrectSignature.
C32_Witness ==
    /\ attack.kind = "flip"
    /\ ReachesVerification(stream) /\ ~HeaderSigGenuine(stream)
    /\ DeserializeHeader(HeaderRawIn(stream)).res = "err"
    /\ unsealer.pc = "done" /\ unsealer.res = "IncorrectSignature"

\* seal has returned Ok with a final segment written.
SealReturned ==
    /\ sealer.pc = "done" /\ sealer.res = "Ok"
    /\ segs # <<>> /\ segs[Len(segs)].last

\* unseal, or Unsealer::new before it, has returned a value to its caller.
UnsealReturned == Finished /\ unsealer.res \in {"Ok"} \cup ReturnedErrors

\* A measure of what a run of seal, and of unseal, still has to do: the bytes
\* not yet read, then the place in the turn of the loop.
SealRank ==
    4 * (Len(plain) - r_pos)
      + (CASE sealer.pc = "loop" -> (IF sealer.buf_tail = SegmentSize THEN 3 ELSE 2)
           [] sealer.pc = "flush" -> 1
           [] OTHER -> 0)

UnsealRank ==
    8 * (Len(stream) - u_pos)
      + (CASE unsealer.pc = "loop" -> 4
           [] unsealer.pc = "write" -> (IF unsealer.is_last THEN 3 ELSE 5)
           [] unsealer.pc = "close" -> 2
           [] OTHER -> 0)

\* Every turn of a loop lowers the measure of its run: the loops come to an
\* end, by a return or by a panic.
LoopsDescend ==
    [][ /\ SealLoop => (SealRank' < SealRank /\ SealRank' >= 0)
        /\ UnsealLoop => (UnsealRank' < UnsealRank /\ UnsealRank' >= 0) ]_vars

\* Every run of seal that enters the loop has returned Ok with a final
\* segment when it is over.
SealEndsReturned == (sealer.pc = "done" /\ segs # <<>>) => SealReturned

\* C33: on a finite plaintext seal eventually writes its final segment and
\* returns, and on the finite sealed bytes it is given unseal eventually
\* returns Ok or an error.
C33_Termination ==
    /\ (sealer.pc = "loop") ~> SealReturned
    /\ (unsealer.pc = "loop") ~> UnsealReturned

\* The split of the plaintext from position pos on by a reader that fills
\* every read: segments of cap bytes, then of segment_size bytes, as long as
\* that many bytes are left, and a final segment with the rest.
RECURSIVE SplitByWholeReads(_, _)
SplitByWholeReads(pos, cap) ==
    IF Len(plain) - pos < cap
    THEN << [payload |-> Slice(plain, pos, Len(plain)), last |-> TRUE] >>
    ELSE << [payload |-> Slice(plain, pos, pos + cap), last |-> FALSE] >>
            \o SplitByWholeReads(pos + cap, SegmentSize)

\* The split seal has made so far.
SplitSoFar == [k \in 1..Len(segs) |-> [payload |-> segs[k].payload, last |-> segs[k].last]]

\* unseal of the bytes from pos on by a reader that fills every read.
RECURSIVE UnsealByWholeReads(_, _, _)
UnsealByWholeReads(pos, u, out) ==
    LET n == Min(unsealer.bufsize, Len(stream) - pos)
        is_last == n < unsealer.bufsize
        p == ProcessSegment(u, Slice(stream, pos, pos + n), is_last, unsealer.build)
    IN  IF p.res # "Ok" THEN [res |-> p.res, sink |-> out]
        ELSE IF is_last THEN [res |-> "Ok", sink |-> out \o p.m]
        ELSE UnsealByWholeReads(pos + n,
                 [u EXCEPT !.counter = U32Inc(@), !.pol_id = p.pol_id,
                           !.verifier = p.verifier],
                 out \o p.m)

\* The Unsealer as unseal finds it for this recipient and key.
UnsealerAtStart ==
    LET new == UnsealerNewOf(stream)
    IN  [ dec |-> DeckNew(Decaps(RecipientInfoOf(new.header, unsealer.ident).rec_info,
                                 unsealer.usk),
                          new.header.iv),
          counter |-> U32Zero, pol_id |-> "None", verifier |-> new.verifier ]

UnsealInLoop == "bufsize" \in DOMAIN unsealer

\* C34: the payloads of the segments seal writes, and the result and output of
\* unseal, are those of a run in which every read fills its buffer, whatever
\* the sizes of the reads were.
C34_ChunkingIndependent ==
    /\ sealer.pc \in {"loop", "flush"} =>
          IsPrefix(SplitSoFar,
                   SplitByWholeReads(0, SegmentSize - POL_SIZE_SIZE - PolLenOf(SignerPolicy)))
    /\ (sealer.pc = "done" /\ sealer.res = "Ok") =>
          SplitSoFar = SplitByWholeReads(0, SegmentSize - POL_SIZE_SIZE - PolLenOf(SignerPolicy))
    /\ UnsealInLoop =>
          LET whole == UnsealByWholeReads(UnsealerNewOf(stream).pos, UnsealerAtStart, <<>>)
          IN  /\ IsPrefix(sink, whole.sink)
              /\ Finished => (unsealer.res = whole.res /\ sink = whole.sink)

\* seal has split a plaintext into a full and a final segment, and unseal is
\* in the middle of a segment of these bytes after a read that did not fill
\* its buffer.
C34_Witness ==
    /\ sealer.pc = "done" /\ sealer.res = "Ok"
    /\ Len(segs) = 2
    /\ Len(segs[1].payload) >= 2 /\ Len(segs[2].payload) >= 2
    /\ attack.kind = "none"
    /\ UnsealInLoop /\ unsealer.pc = "loop"
    /\ unsealer.buf_tail > 0 /\ unsealer.buf_tail < unsealer.bufsize

\* The wraps of the run that wrote the buffer the unwrap at k was given.
WrapsOf(k) ==
    { j \in 2..Len(calls) :
        /\ calls[j].op \in WrapOps /\ calls[j].res = "Ok"
        /\ calls[j].buf = calls[k].input }

\* C35: unwrap and unwrap_last leave the Deck as it was, give the same answer
\* whatever the counter of the Deck is, and accept every buffer a wrap under
\* the same key and nonce has written, whichever wrap it was and however
\* often and in whatever order the buffers are handed in.
C35_UnwrapKeepsNoPosition ==
    \A k \in 2..Len(calls) :
        calls[k].op \in UnwrapOps =>
            /\ calls[k].after = calls[k].before
            /\ \A c \in StartCounters :
                  LET r == Deck_unwrap([calls[k].before EXCEPT !.counter = c],
                                       calls[k].input)
                  IN  r.res = calls[k].res /\ r.buf = calls[k].buf
            /\ (calls[k].key = calls[1].key /\ WrapsOf(k) # {})
                  => /\ calls[k].res = "Ok"
                     /\ \A j \in WrapsOf(k) : calls[k].buf = calls[j].plain

\* Two buffers were wrapped at successive counters, the second was unwrapped
\* first and the first after it, both by the same Deck and both accepted.
C35_Witness ==
    /\ Len(calls) = 6
    /\ calls[2].op = "wrap" /\ calls[3].op = "wrap"
    /\ calls[2].plain # calls[3].plain
    /\ calls[4].op = "unwrap" /\ calls[4].key = calls[1].key
    /\ calls[4].input = calls[3].buf /\ calls[4].res = "Ok"
    /\ calls[5].op = "reload" /\ calls[5].of = 2
    /\ calls[6].op = "unwrap" /\ calls[6].key = calls[1].key
    /\ calls[6].input = calls[2].buf /\ calls[6].res = "Ok"
    /\ calls[6].buf = calls[2].plain
    /\ calls[6].after = DeckNew(calls[1].key, DeckNonce)

\* The counter seal chained into the signature of segment k: the four bytes
\* before the final flag of the signed transcript.
SignedCounter(k) ==
    Slice(SignedTranscript(k), Len(SignedTranscript(k)) - 5, Len(SignedTranscript(k)) - 1)

\* C36: segment i of seal (from 0) carries i as the counter in its signature
\* and as the counter in its Deck trailer, and whenever seal is about to wrap,
\* its own counter and the counter of its Deck are equal, both the number of
\* segments written.
C36_CountersInLockstep ==
    /\ \A k \in 1..Len(segs) :
          /\ SignedCounter(k) = BeU32(U32(k - 1))
          /\ SignedCounter(k) = TrailerCounter(k)
    /\ sealer.pc = "loop" =>
          /\ sealer.counter = sealer.enc.counter
          /\ sealer.counter = U32(Len(segs))

\* seal has written a segment with counter 0 and a final segment with counter
\* 1, in the signature and in the trailer.
C36_Witness ==
    /\ sealer.pc = "done" /\ sealer.res = "Ok"
    /\ Len(segs) = 2
    /\ segs[1].op = "wrap" /\ segs[2].op = "wrap_last"
    /\ SignedCounter(1) = BeU32(U32(0)) /\ TrailerCounter(1) = BeU32(U32(0))
    /\ SignedCounter(2) = BeU32(U32(1)) /\ TrailerCounter(2) = BeU32(U32(1))

\* C37: called with a nonce of NONCE_SIZE bytes, aead_nonce returns an IV of
\* IV_SIZE bytes that is the nonce, the counter as four big-endian bytes and
\* the last_block flag as one byte, and another counter or flag with the same
\* nonce gives another IV.
C37_AeadNonceLayout ==
    (web.pc = "returned" /\ Len(web.nonce) = NONCE_SIZE) =>
        /\ web.out.res = "Ok"
        /\ Len(web.out.iv) = IV_SIZE
        /\ web.out.iv = web.nonce \o BeU32(web.counter)
                            \o << B(IF web.last_block THEN 1 ELSE 0) >>
        /\ \A c \in WebCounters, l \in BOOLEAN :
              (<< c, l >> # << web.counter, web.last_block >>)
                  => aead_nonce(web.nonce, c, l).iv # web.out.iv

=============================================================================
